---------------------------- MODULE Spec2Model ----------------------------
(***************************************************************************)
(* The work-mapping matchers of the IMSLP CSV processors.                  *)
(*                                                                         *)
(* A Python str is modelled as a sequence of one-character strings, so     *)
(* that lower(), replace(), split(), join() and the substring test `in`    *)
(* act on characters exactly as the Python built-ins do.  A dict is a      *)
(* sequence of [key, mapping] entries with pairwise distinct keys, in      *)
(* insertion order (the order .items() iterates in).  A reference to a     *)
(* mapping dict of the table is the position of its entry; None is 0.      *)
(***************************************************************************)
EXTENDS Integers, Sequences, FiniteSets, TLC

VARIABLES
    processor,      \* the class of the processor object that was constructed
    work_mappings,  \* self.work_mappings, set once by __init__
    composer,       \* arguments of the current _find_work_mapping call
    title,
    candidate_keys, \* its local search_keys list (one search_key in the substring variants)
    mapped_work,    \* its return value: a reference into work_mappings, or None
    test_search_key,   \* arguments of the latest direct call of the fuzzy test
    test_mapping_key,  \*   (_is_strong_match / _is_good_match)
    match,          \* its return value
    calls,          \* history: number of calls made on the object so far
    history,        \* history: arguments and result of each _find_work_mapping call made
    csv_file,       \* the lines of the CSV file given to read_csv_works / process_csv_works
    works,          \* the works list returned by read_csv_works
    processed_works,   \* the processed_works list of process_csv_works
    max_works,      \* the max_works argument of process_csv_works
    pc,             \* position of the running read_csv_works / process_csv_works call
    threads,        \* the locals of each running _find_work_mapping call, one per thread
    args,           \* the arguments and the environment's answers of the running call
    ret,            \* its locals and its return value
    files,          \* the paths that exist in the file system
    requests        \* the download requests issued so far, in order

vars == <<processor, work_mappings, composer, title, candidate_keys, mapped_work,
          test_search_key, test_mapping_key, match, calls, history,
          csv_file, works, processed_works, max_works, pc,
          threads, args, ret, files, requests>>

csv_vars == <<csv_file, works, processed_works, max_works, pc>>

\* no CSV file is being read or processed
CsvIdle ==
    /\ csv_file = <<>> /\ works = <<>> /\ processed_works = <<>>
    /\ max_works = 0 /\ pc = "idle"

match_vars == <<processor, work_mappings, composer, title, candidate_keys, mapped_work,
                test_search_key, test_mapping_key, match, calls, history>>

net_vars == <<threads, args, ret, files, requests>>

\* no thread runs and no call on the network or the file system is made
NetIdle ==
    /\ threads = <<>>
    /\ args = <<>> /\ ret = <<>>
    /\ files = {} /\ requests = <<>>

None == 0

\* the outcome of a call out of which an exception propagates
Raised == -1

----------------------------------------------------------------------------
(* Python str built-ins, on sequences of characters                        *)

Whitespace == {" ", "\t", "\n", "\r"}

AsciiLower ==
    [A |-> "a", B |-> "b", C |-> "c", D |-> "d", E |-> "e", F |-> "f", G |-> "g",
     H |-> "h", I |-> "i", J |-> "j", K |-> "k", L |-> "l", M |-> "m", N |-> "n",
     O |-> "o", P |-> "p", Q |-> "q", R |-> "r", S |-> "s", T |-> "t", U |-> "u",
     V |-> "v", W |-> "w", X |-> "x", Y |-> "y", Z |-> "z"]

\* str.lower()
lower(s) ==
    [i \in 1..Len(s) |-> IF s[i] \in DOMAIN AsciiLower THEN AsciiLower[s[i]] ELSE s[i]]

\* s[i:].startswith(sub)
starts_at(s, sub, i) ==
    /\ i + Len(sub) - 1 <= Len(s)
    /\ \A j \in 1..Len(sub) : s[i + j - 1] = sub[j]

\* sub in s  (substring test)
contains(s, sub) ==
    \E i \in 1..(Len(s) - Len(sub) + 1) : starts_at(s, sub, i)

RECURSIVE replace_from(_, _, _, _)
replace_from(s, old, new, i) ==
    IF i > Len(s) THEN <<>>
    ELSE IF starts_at(s, old, i)
         THEN new \o replace_from(s, old, new, i + Len(old))
         ELSE <<s[i]>> \o replace_from(s, old, new, i + 1)

\* str.replace(old, new) for a non-empty old: every non-overlapping
\* occurrence, found left to right
replace(s, old, new) == replace_from(s, old, new, 1)

RECURSIVE split_from(_, _, _)
split_from(s, i, word) ==
    IF i > Len(s)
    THEN IF word = <<>> THEN <<>> ELSE <<word>>
    ELSE IF s[i] \in Whitespace
         THEN (IF word = <<>> THEN <<>> ELSE <<word>>) \o split_from(s, i + 1, <<>>)
         ELSE split_from(s, i + 1, Append(word, s[i]))

\* str.split(): the maximal runs of non-whitespace characters, in order
split(s) == split_from(s, 1, <<>>)

RECURSIVE join(_, _)
\* sep.join(words)
join(sep, words) ==
    IF words = <<>> THEN <<>>
    ELSE IF Len(words) = 1 THEN words[1]
    ELSE words[1] \o sep \o join(sep, Tail(words))

\* set(seq)
set(seq) == {seq[i] : i \in 1..Len(seq)}

\* f"{a} {b}"
fmt(a, b) == a \o <<" ">> \o b

----------------------------------------------------------------------------
(* dict operations on a table                                              *)

\* the keys of the table, as a set
keys(wm) == {wm[i].key : i \in 1..Len(wm)}

\* k in wm
has_key(wm, k) == \E i \in 1..Len(wm) : wm[i].key = k

\* wm[k], for a key k of wm: the reference to its mapping
getitem(wm, k) == CHOOSE i \in 1..Len(wm) : wm[i].key = k

----------------------------------------------------------------------------
(* The built-in reference tables, one per processor class.  Only the       *)
(* keys are read by the matchers; a mapping is returned by reference.  A   *)
(* character of a note outside Latin-1 is written as a question mark.    *)

CompleteMappings ==
  <<
    \* 'mozart symphony 40'
    [key |-> <<"m","o","z","a","r","t"," ","s","y","m","p","h","o","n","y"," ","4","0">>,
     mapping |-> [full_title |-> "Symphony No.40, K.550", composer |-> "Mozart, Wolfgang Amadeus",
                 imslp_url |-> "https://imslp.org/wiki/Symphony_No.40,_K.550_(Mozart,_Wolfgang_Amadeus)"]],
    \* 'mozart symphony 36'
    [key |-> <<"m","o","z","a","r","t"," ","s","y","m","p","h","o","n","y"," ","3","6">>,
     mapping |-> [full_title |-> "Symphony No.36, K.425", composer |-> "Mozart, Wolfgang Amadeus",
                 imslp_url |-> "https://imslp.org/wiki/Symphony_No.36,_K.425_(Mozart,_Wolfgang_Amadeus)"]],
    \* 'mozart symphony 35'
    [key |-> <<"m","o","z","a","r","t"," ","s","y","m","p","h","o","n","y"," ","3","5">>,
     mapping |-> [full_title |-> "Symphony No.35, K.385", composer |-> "Mozart, Wolfgang Amadeus",
                 imslp_url |-> "https://imslp.org/wiki/Symphony_No.35,_K.385_(Mozart,_Wolfgang_Amadeus)"]],
    \* 'mozart eine kleine nachtmusik'
    [key |-> <<"m","o","z","a","r","t"," ","e","i","n","e"," ","k","l","e","i","n","e"," ","n","a","c","h","t","m","u","s","i","k">>,
     mapping |-> [full_title |-> "Eine kleine Nachtmusik, K.525", composer |-> "Mozart, Wolfgang Amadeus",
                 imslp_url |-> "https://imslp.org/wiki/Eine_kleine_Nachtmusik,_K.525_(Mozart,_Wolfgang_Amadeus)"]],
    \* 'mozart piano concerto k 271'
    [key |-> <<"m","o","z","a","r","t"," ","p","i","a","n","o"," ","c","o","n","c","e","r","t","o"," ","k"," ","2","7","1">>,
     mapping |-> [full_title |-> "Piano Concerto No.9, K.271", composer |-> "Mozart, Wolfgang Amadeus",
                 imslp_url |-> "https://imslp.org/wiki/Piano_Concerto_No.9,_K.271_(Mozart,_Wolfgang_Amadeus)"]],
    \* 'mozart clarinet concerto'
    [key |-> <<"m","o","z","a","r","t"," ","c","l","a","r","i","n","e","t"," ","c","o","n","c","e","r","t","o">>,
     mapping |-> [full_title |-> "Clarinet Concerto, K.622", composer |-> "Mozart, Wolfgang Amadeus",
                 imslp_url |-> "https://imslp.org/wiki/Clarinet_Concerto,_K.622_(Mozart,_Wolfgang_Amadeus)"]],
    \* 'mozart piano concerto k 246'
    [key |-> <<"m","o","z","a","r","t"," ","p","i","a","n","o"," ","c","o","n","c","e","r","t","o"," ","k"," ","2","4","6">>,
     mapping |-> [full_title |-> "Piano Concerto No.8, K.246", composer |-> "Mozart, Wolfgang Amadeus",
                 imslp_url |-> "https://imslp.org/wiki/Piano_Concerto_No.8,_K.246_(Mozart,_Wolfgang_Amadeus)"]],
    \* 'mozart piano sonata k. 333'
    [key |-> <<"m","o","z","a","r","t"," ","p","i","a","n","o"," ","s","o","n","a","t","a"," ","k","."," ","3","3","3">>,
     mapping |-> [full_title |-> "Piano Sonata No.13, K.333/315c", composer |-> "Mozart, Wolfgang Amadeus",
                 imslp_url |-> "https://imslp.org/wiki/Piano_Sonata_No.13,_K.333/315c_(Mozart,_Wolfgang_Amadeus)"]],
    \* 'mozart piano concerto k 107'
    [key |-> <<"m","o","z","a","r","t"," ","p","i","a","n","o"," ","c","o","n","c","e","r","t","o"," ","k"," ","1","0","7">>,
     mapping |-> [full_title |-> "Piano Concerto No.1, K.37", composer |-> "Mozart, Wolfgang Amadeus",
                 imslp_url |-> "https://imslp.org/wiki/Piano_Concerto_No.1,_K.37_(Mozart,_Wolfgang_Amadeus)"]],
    \* 'beethoven piano sonata no 8'
    [key |-> <<"b","e","e","t","h","o","v","e","n"," ","p","i","a","n","o"," ","s","o","n","a","t","a"," ","n","o"," ","8">>,
     mapping |-> [full_title |-> "Piano Sonata No.8, Op.13", composer |-> "Beethoven, Ludwig van",
                 imslp_url |-> "https://imslp.org/wiki/Piano_Sonata_No.8,_Op.13_(Beethoven,_Ludwig_van)"]],
    \* 'beethoven piano sonata no. 21'
    [key |-> <<"b","e","e","t","h","o","v","e","n"," ","p","i","a","n","o"," ","s","o","n","a","t","a"," ","n","o","."," ","2","1">>,
     mapping |-> [full_title |-> "Piano Sonata No.21, Op.53", composer |-> "Beethoven, Ludwig van",
                 imslp_url |-> "https://imslp.org/wiki/Piano_Sonata_No.21,_Op.53_(Beethoven,_Ludwig_van)"]],
    \* 'beethoven piano sonata no. 15'
    [key |-> <<"b","e","e","t","h","o","v","e","n"," ","p","i","a","n","o"," ","s","o","n","a","t","a"," ","n","o","."," ","1","5">>,
     mapping |-> [full_title |-> "Piano Sonata No.15, Op.28", composer |-> "Beethoven, Ludwig van",
                 imslp_url |-> "https://imslp.org/wiki/Piano_Sonata_No.15,_Op.28_(Beethoven,_Ludwig_van)"]],
    \* 'beethoven piano sonata no. 20'
    [key |-> <<"b","e","e","t","h","o","v","e","n"," ","p","i","a","n","o"," ","s","o","n","a","t","a"," ","n","o","."," ","2","0">>,
     mapping |-> [full_title |-> "Piano Sonata No.20, Op.49 No.2", composer |-> "Beethoven, Ludwig van",
                 imslp_url |-> "https://imslp.org/wiki/Piano_Sonata_No.20,_Op.49_No.2_(Beethoven,_Ludwig_van)"]],
    \* 'bach french suite no 6'
    [key |-> <<"b","a","c","h"," ","f","r","e","n","c","h"," ","s","u","i","t","e"," ","n","o"," ","6">>,
     mapping |-> [full_title |-> "French Suite No.6, BWV 817", composer |-> "Bach, Johann Sebastian",
                 imslp_url |-> "https://imslp.org/wiki/French_Suite_No.6,_BWV_817_(Bach,_Johann_Sebastian)"]],
    \* 'bach cello suite no 3'
    [key |-> <<"b","a","c","h"," ","c","e","l","l","o"," ","s","u","i","t","e"," ","n","o"," ","3">>,
     mapping |-> [full_title |-> "Cello Suite No.3, BWV 1009", composer |-> "Bach, Johann Sebastian",
                 imslp_url |-> "https://imslp.org/wiki/Cello_Suite_No.3,_BWV_1009_(Bach,_Johann_Sebastian)"]],
    \* 'bach well-tempered clavier i'
    [key |-> <<"b","a","c","h"," ","w","e","l","l","-","t","e","m","p","e","r","e","d"," ","c","l","a","v","i","e","r"," ","i">>,
     mapping |-> [full_title |-> "Well-Tempered Clavier I, BWV 846-869", composer |-> "Bach, Johann Sebastian",
                 imslp_url |-> "https://imslp.org/wiki/Well-Tempered_Clavier_I,_BWV_846-869_(Bach,_Johann_Sebastian)"]],
    \* 'bach wtc book 1'
    [key |-> <<"b","a","c","h"," ","w","t","c"," ","b","o","o","k"," ","1">>,
     mapping |-> [full_title |-> "Well-Tempered Clavier I, BWV 846-869", composer |-> "Bach, Johann Sebastian",
                 imslp_url |-> "https://imslp.org/wiki/Well-Tempered_Clavier_I,_BWV_846-869_(Bach,_Johann_Sebastian)"]],
    \* 'bach well-tempered clavier ii'
    [key |-> <<"b","a","c","h"," ","w","e","l","l","-","t","e","m","p","e","r","e","d"," ","c","l","a","v","i","e","r"," ","i","i">>,
     mapping |-> [full_title |-> "Well-Tempered Clavier II, BWV 870-893", composer |-> "Bach, Johann Sebastian",
                 imslp_url |-> "https://imslp.org/wiki/Well-Tempered_Clavier_II,_BWV_870-893_(Bach,_Johann_Sebastian)"]],
    \* 'bach wtc book 2'
    [key |-> <<"b","a","c","h"," ","w","t","c"," ","b","o","o","k"," ","2">>,
     mapping |-> [full_title |-> "Well-Tempered Clavier II, BWV 870-893", composer |-> "Bach, Johann Sebastian",
                 imslp_url |-> "https://imslp.org/wiki/Well-Tempered_Clavier_II,_BWV_870-893_(Bach,_Johann_Sebastian)"]],
    \* 'bach brandenburg concerto no 5'
    [key |-> <<"b","a","c","h"," ","b","r","a","n","d","e","n","b","u","r","g"," ","c","o","n","c","e","r","t","o"," ","n","o"," ","5">>,
     mapping |-> [full_title |-> "Brandenburg Concerto No.5, BWV 1050", composer |-> "Bach, Johann Sebastian",
                 imslp_url |-> "https://imslp.org/wiki/Brandenburg_Concerto_No.5,_BWV_1050_(Bach,_Johann_Sebastian)"]],
    \* 'bach brandenburg concerto no 2'
    [key |-> <<"b","a","c","h"," ","b","r","a","n","d","e","n","b","u","r","g"," ","c","o","n","c","e","r","t","o"," ","n","o"," ","2">>,
     mapping |-> [full_title |-> "Brandenburg Concerto No.2, BWV 1047", composer |-> "Bach, Johann Sebastian",
                 imslp_url |-> "https://imslp.org/wiki/Brandenburg_Concerto_No.2,_BWV_1047_(Bach,_Johann_Sebastian)"]],
    \* 'bach orchestral suite no. 3'
    [key |-> <<"b","a","c","h"," ","o","r","c","h","e","s","t","r","a","l"," ","s","u","i","t","e"," ","n","o","."," ","3">>,
     mapping |-> [full_title |-> "Orchestral Suite No.3, BWV 1068", composer |-> "Bach, Johann Sebastian",
                 imslp_url |-> "https://imslp.org/wiki/Orchestral_Suite_No.3,_BWV_1068_(Bach,_Johann_Sebastian)",
                 note |-> "Contains the famous Gavottes"]],
    \* 'bach gavottes'
    [key |-> <<"b","a","c","h"," ","g","a","v","o","t","t","e","s">>,
     mapping |-> [full_title |-> "Orchestral Suite No.3, BWV 1068", composer |-> "Bach, Johann Sebastian",
                 imslp_url |-> "https://imslp.org/wiki/Orchestral_Suite_No.3,_BWV_1068_(Bach,_Johann_Sebastian)",
                 note |-> "Contains the famous Gavottes 1 and 3"]],
    \* 'schubert kennst du das land'
    [key |-> <<"s","c","h","u","b","e","r","t"," ","k","e","n","n","s","t"," ","d","u"," ","d","a","s"," ","l","a","n","d">>,
     mapping |-> [full_title |-> "Mignon Songs, D.321", composer |-> "Schubert, Franz",
                 imslp_url |-> "https://imslp.org/wiki/Mignon_Songs,_D.321_(Schubert,_Franz)",
                 note |-> "\"Kennst du das Land\" is the first of the Mignon Songs"]],
    \* 'schubert der doppelganger'
    [key |-> <<"s","c","h","u","b","e","r","t"," ","d","e","r"," ","d","o","p","p","e","l","g","a","n","g","e","r">>,
     mapping |-> [full_title |-> "Schwanengesang, D.957", composer |-> "Schubert, Franz",
                 imslp_url |-> "https://imslp.org/wiki/Schwanengesang,_D.957_(Schubert,_Franz)",
                 note |-> "\"Der Doppelgänger\" is No.13 in the Schwanengesang song cycle"]],
    \* 'anna magdalena bach march'
    [key |-> <<"a","n","n","a"," ","m","a","g","d","a","l","e","n","a"," ","b","a","c","h"," ","m","a","r","c","h">>,
     mapping |-> [full_title |-> "Notebook for Anna Magdalena Bach, BWV Anh.113-132", composer |-> "Bach, Johann Sebastian",
                 imslp_url |-> "https://imslp.org/wiki/Notebook_for_Anna_Magdalena_Bach,_BWV_Anh.113-132_(Bach,_Johann_Sebastian)",
                 note |-> "March in D major, BWV Anh.122 is from this collection"]],
    \* 'haydn piano sonata hob. xvi 37'
    [key |-> <<"h","a","y","d","n"," ","p","i","a","n","o"," ","s","o","n","a","t","a"," ","h","o","b","."," ","x","v","i"," ","3","7">>,
     mapping |-> [full_title |-> "Piano Sonata No.37, Hob.XVI:37", composer |-> "Haydn, Joseph",
                 imslp_url |-> "https://imslp.org/wiki/Piano_Sonata_No.37,_Hob.XVI:37_(Haydn,_Joseph)"]],
    \* 'haydn piano sonata hob xvi:3'
    [key |-> <<"h","a","y","d","n"," ","p","i","a","n","o"," ","s","o","n","a","t","a"," ","h","o","b"," ","x","v","i",":","3">>,
     mapping |-> [full_title |-> "Piano Sonata No.3, Hob.XVI:3", composer |-> "Haydn, Joseph",
                 imslp_url |-> "https://imslp.org/wiki/Piano_Sonata_No.3,_Hob.XVI:3_(Haydn,_Joseph)"]],
    \* 'haydn piano sonata hob. xvi/20'
    [key |-> <<"h","a","y","d","n"," ","p","i","a","n","o"," ","s","o","n","a","t","a"," ","h","o","b","."," ","x","v","i","/","2","0">>,
     mapping |-> [full_title |-> "Piano Sonata No.33, Hob.XVI:20", composer |-> "Haydn, Joseph",
                 imslp_url |-> "https://imslp.org/wiki/Piano_Sonata_No.33,_Hob.XVI:20_(Haydn,_Joseph)"]],
    \* 'haydn piano sonata hob.xvi:38'
    [key |-> <<"h","a","y","d","n"," ","p","i","a","n","o"," ","s","o","n","a","t","a"," ","h","o","b",".","x","v","i",":","3","8">>,
     mapping |-> [full_title |-> "Piano Sonata No.38, Hob.XVI:38", composer |-> "Haydn, Joseph",
                 imslp_url |-> "https://imslp.org/wiki/Piano_Sonata_No.38,_Hob.XVI:38_(Haydn,_Joseph)"]],
    \* 'haydn symphony 103'
    [key |-> <<"h","a","y","d","n"," ","s","y","m","p","h","o","n","y"," ","1","0","3">>,
     mapping |-> [full_title |-> "Symphony No.103, Hob.I:103", composer |-> "Haydn, Joseph",
                 imslp_url |-> "https://imslp.org/wiki/Symphony_No.103,_Hob.I:103_(Haydn,_Joseph)"]],
    \* 'haydn symphony 101'
    [key |-> <<"h","a","y","d","n"," ","s","y","m","p","h","o","n","y"," ","1","0","1">>,
     mapping |-> [full_title |-> "Symphony No.101, Hob.I:101", composer |-> "Haydn, Joseph",
                 imslp_url |-> "https://imslp.org/wiki/Symphony_No.101,_Hob.I:101_(Haydn,_Joseph)"]],
    \* 'haydn op. 76, no. 3'
    [key |-> <<"h","a","y","d","n"," ","o","p","."," ","7","6",","," ","n","o","."," ","3">>,
     mapping |-> [full_title |-> "String Quartet Op.76 No.3, Hob.III:77", composer |-> "Haydn, Joseph",
                 imslp_url |-> "https://imslp.org/wiki/String_Quartet_Op.76_No.3,_Hob.III:77_(Haydn,_Joseph)",
                 note |-> "The famous \"Emperor\" quartet"]],
    \* 'vivaldi winter'
    [key |-> <<"v","i","v","a","l","d","i"," ","w","i","n","t","e","r">>,
     mapping |-> [full_title |-> "The Four Seasons, Op.8", composer |-> "Vivaldi, Antonio",
                 imslp_url |-> "https://imslp.org/wiki/The_Four_Seasons,_Op.8_(Vivaldi,_Antonio)",
                 note |-> "Winter is the 4th concerto in The Four Seasons"]],
    \* 'vivaldi summer'
    [key |-> <<"v","i","v","a","l","d","i"," ","s","u","m","m","e","r">>,
     mapping |-> [full_title |-> "The Four Seasons, Op.8", composer |-> "Vivaldi, Antonio",
                 imslp_url |-> "https://imslp.org/wiki/The_Four_Seasons,_Op.8_(Vivaldi,_Antonio)",
                 note |-> "Summer is the 2nd concerto in The Four Seasons"]],
    \* 'purcell when i am laid in earth'
    [key |-> <<"p","u","r","c","e","l","l"," ","w","h","e","n"," ","i"," ","a","m"," ","l","a","i","d"," ","i","n"," ","e","a","r","t","h">>,
     mapping |-> [full_title |-> "Dido and Aeneas, Z.626", composer |-> "Purcell, Henry",
                 imslp_url |-> "https://imslp.org/wiki/Dido_and_Aeneas,_Z.626_(Purcell,_Henry)",
                 note |-> "\"When I am laid in earth\" is Dido's famous Lament"]],
    \* 'fanny mendelssohn trio'
    [key |-> <<"f","a","n","n","y"," ","m","e","n","d","e","l","s","s","o","h","n"," ","t","r","i","o">>,
     mapping |-> [full_title |-> "Piano Trio, Op.11", composer |-> "Hensel, Fanny",
                 imslp_url |-> "https://imslp.org/wiki/Piano_Trio,_Op.11_(Hensel,_Fanny)",
                 note |-> "Fanny Mendelssohn-Hensel is catalogued under \"Hensel, Fanny\""]],
    \* 'brahms clarinet sonata'
    [key |-> <<"b","r","a","h","m","s"," ","c","l","a","r","i","n","e","t"," ","s","o","n","a","t","a">>,
     mapping |-> [full_title |-> "Clarinet Sonata No.1, Op.120 No.1", composer |-> "Brahms, Johannes",
                 imslp_url |-> "https://imslp.org/wiki/Clarinet_Sonata_No.1,_Op.120_No.1_(Brahms,_Johannes)"]],
    \* 'schumann novelletten'
    [key |-> <<"s","c","h","u","m","a","n","n"," ","n","o","v","e","l","l","e","t","t","e","n">>,
     mapping |-> [full_title |-> "8 Novelletten, Op.21", composer |-> "Schumann, Robert",
                 imslp_url |-> "https://imslp.org/wiki/8_Novelletten,_Op.21_(Schumann,_Robert)",
                 note |-> "No.7 is one of the most popular Novelletten"]]
  >>

ComprehensiveMappings ==
  <<
    \* 'mozart symphony 40'
    [key |-> <<"m","o","z","a","r","t"," ","s","y","m","p","h","o","n","y"," ","4","0">>,
     mapping |-> [full_title |-> "Symphony No.40, K.550", composer |-> "Mozart, Wolfgang Amadeus",
                 imslp_url |-> "https://imslp.org/wiki/Symphony_No.40,_K.550_(Mozart,_Wolfgang_Amadeus)"]],
    \* 'mozart symphony 36'
    [key |-> <<"m","o","z","a","r","t"," ","s","y","m","p","h","o","n","y"," ","3","6">>,
     mapping |-> [full_title |-> "Symphony No.36, K.425", composer |-> "Mozart, Wolfgang Amadeus",
                 imslp_url |-> "https://imslp.org/wiki/Symphony_No.36,_K.425_(Mozart,_Wolfgang_Amadeus)"]],
    \* 'mozart symphony 35'
    [key |-> <<"m","o","z","a","r","t"," ","s","y","m","p","h","o","n","y"," ","3","5">>,
     mapping |-> [full_title |-> "Symphony No.35, K.385", composer |-> "Mozart, Wolfgang Amadeus",
                 imslp_url |-> "https://imslp.org/wiki/Symphony_No.35,_K.385_(Mozart,_Wolfgang_Amadeus)"]],
    \* 'mozart eine kleine nachtmusik'
    [key |-> <<"m","o","z","a","r","t"," ","e","i","n","e"," ","k","l","e","i","n","e"," ","n","a","c","h","t","m","u","s","i","k">>,
     mapping |-> [full_title |-> "Eine kleine Nachtmusik, K.525", composer |-> "Mozart, Wolfgang Amadeus",
                 imslp_url |-> "https://imslp.org/wiki/Eine_kleine_Nachtmusik,_K.525_(Mozart,_Wolfgang_Amadeus)"]],
    \* 'beethoven piano sonata no 8'
    [key |-> <<"b","e","e","t","h","o","v","e","n"," ","p","i","a","n","o"," ","s","o","n","a","t","a"," ","n","o"," ","8">>,
     mapping |-> [full_title |-> "Piano Sonata No.8, Op.13", composer |-> "Beethoven, Ludwig van",
                 imslp_url |-> "https://imslp.org/wiki/Piano_Sonata_No.8,_Op.13_(Beethoven,_Ludwig_van)"]],
    \* 'beethoven piano sonata no. 21'
    [key |-> <<"b","e","e","t","h","o","v","e","n"," ","p","i","a","n","o"," ","s","o","n","a","t","a"," ","n","o","."," ","2","1">>,
     mapping |-> [full_title |-> "Piano Sonata No.21, Op.53", composer |-> "Beethoven, Ludwig van",
                 imslp_url |-> "https://imslp.org/wiki/Piano_Sonata_No.21,_Op.53_(Beethoven,_Ludwig_van)"]],
    \* 'beethoven piano sonata no. 15'
    [key |-> <<"b","e","e","t","h","o","v","e","n"," ","p","i","a","n","o"," ","s","o","n","a","t","a"," ","n","o","."," ","1","5">>,
     mapping |-> [full_title |-> "Piano Sonata No.15, Op.28", composer |-> "Beethoven, Ludwig van",
                 imslp_url |-> "https://imslp.org/wiki/Piano_Sonata_No.15,_Op.28_(Beethoven,_Ludwig_van)"]],
    \* 'beethoven piano sonata no. 20'
    [key |-> <<"b","e","e","t","h","o","v","e","n"," ","p","i","a","n","o"," ","s","o","n","a","t","a"," ","n","o","."," ","2","0">>,
     mapping |-> [full_title |-> "Piano Sonata No.20, Op.49 No.2", composer |-> "Beethoven, Ludwig van",
                 imslp_url |-> "https://imslp.org/wiki/Piano_Sonata_No.20,_Op.49_No.2_(Beethoven,_Ludwig_van)"]],
    \* 'bach french suite no 6'
    [key |-> <<"b","a","c","h"," ","f","r","e","n","c","h"," ","s","u","i","t","e"," ","n","o"," ","6">>,
     mapping |-> [full_title |-> "French Suite No.6, BWV 817", composer |-> "Bach, Johann Sebastian",
                 imslp_url |-> "https://imslp.org/wiki/French_Suite_No.6,_BWV_817_(Bach,_Johann_Sebastian)"]],
    \* 'bach cello suite no 3'
    [key |-> <<"b","a","c","h"," ","c","e","l","l","o"," ","s","u","i","t","e"," ","n","o"," ","3">>,
     mapping |-> [full_title |-> "Cello Suite No.3, BWV 1009", composer |-> "Bach, Johann Sebastian",
                 imslp_url |-> "https://imslp.org/wiki/Cello_Suite_No.3,_BWV_1009_(Bach,_Johann_Sebastian)"]],
    \* 'bach well-tempered clavier'
    [key |-> <<"b","a","c","h"," ","w","e","l","l","-","t","e","m","p","e","r","e","d"," ","c","l","a","v","i","e","r">>,
     mapping |-> [full_title |-> "Well-Tempered Clavier I, BWV 846-869", composer |-> "Bach, Johann Sebastian",
                 imslp_url |-> "https://imslp.org/wiki/Well-Tempered_Clavier_I,_BWV_846-869_(Bach,_Johann_Sebastian)"]],
    \* 'bach wtc'
    [key |-> <<"b","a","c","h"," ","w","t","c">>,
     mapping |-> [full_title |-> "Well-Tempered Clavier I, BWV 846-869", composer |-> "Bach, Johann Sebastian",
                 imslp_url |-> "https://imslp.org/wiki/Well-Tempered_Clavier_I,_BWV_846-869_(Bach,_Johann_Sebastian)"]],
    \* 'bach brandenburg concerto no 5'
    [key |-> <<"b","a","c","h"," ","b","r","a","n","d","e","n","b","u","r","g"," ","c","o","n","c","e","r","t","o"," ","n","o"," ","5">>,
     mapping |-> [full_title |-> "Brandenburg Concerto No.5, BWV 1050", composer |-> "Bach, Johann Sebastian",
                 imslp_url |-> "https://imslp.org/wiki/Brandenburg_Concerto_No.5,_BWV_1050_(Bach,_Johann_Sebastian)"]],
    \* 'bach brandenburg concerto no 2'
    [key |-> <<"b","a","c","h"," ","b","r","a","n","d","e","n","b","u","r","g"," ","c","o","n","c","e","r","t","o"," ","n","o"," ","2">>,
     mapping |-> [full_title |-> "Brandenburg Concerto No.2, BWV 1047", composer |-> "Bach, Johann Sebastian",
                 imslp_url |-> "https://imslp.org/wiki/Brandenburg_Concerto_No.2,_BWV_1047_(Bach,_Johann_Sebastian)"]],
    \* 'haydn symphony 103'
    [key |-> <<"h","a","y","d","n"," ","s","y","m","p","h","o","n","y"," ","1","0","3">>,
     mapping |-> [full_title |-> "Symphony No.103, Hob.I:103", composer |-> "Haydn, Joseph",
                 imslp_url |-> "https://imslp.org/wiki/Symphony_No.103,_Hob.I:103_(Haydn,_Joseph)"]],
    \* 'haydn symphony 101'
    [key |-> <<"h","a","y","d","n"," ","s","y","m","p","h","o","n","y"," ","1","0","1">>,
     mapping |-> [full_title |-> "Symphony No.101, Hob.I:101", composer |-> "Haydn, Joseph",
                 imslp_url |-> "https://imslp.org/wiki/Symphony_No.101,_Hob.I:101_(Haydn,_Joseph)"]],
    \* 'vivaldi winter'
    [key |-> <<"v","i","v","a","l","d","i"," ","w","i","n","t","e","r">>,
     mapping |-> [full_title |-> "The Four Seasons, Op.8", composer |-> "Vivaldi, Antonio",
                 imslp_url |-> "https://imslp.org/wiki/The_Four_Seasons,_Op.8_(Vivaldi,_Antonio)"]],
    \* 'vivaldi summer'
    [key |-> <<"v","i","v","a","l","d","i"," ","s","u","m","m","e","r">>,
     mapping |-> [full_title |-> "The Four Seasons, Op.8", composer |-> "Vivaldi, Antonio",
                 imslp_url |-> "https://imslp.org/wiki/The_Four_Seasons,_Op.8_(Vivaldi,_Antonio)"]],
    \* 'schumann novelletten'
    [key |-> <<"s","c","h","u","m","a","n","n"," ","n","o","v","e","l","l","e","t","t","e","n">>,
     mapping |-> [full_title |-> "8 Novelletten, Op.21", composer |-> "Schumann, Robert",
                 imslp_url |-> "https://imslp.org/wiki/8_Novelletten,_Op.21_(Schumann,_Robert)"]],
    \* 'schubert kennst du das land'
    [key |-> <<"s","c","h","u","b","e","r","t"," ","k","e","n","n","s","t"," ","d","u"," ","d","a","s"," ","l","a","n","d">>,
     mapping |-> [full_title |-> "Mignon Songs, D.321", composer |-> "Schubert, Franz",
                 imslp_url |-> "https://imslp.org/wiki/Mignon_Songs,_D.321_(Schubert,_Franz)",
                 note |-> "\"Kennst du das Land\" is part of the Mignon Songs"]],
    \* 'schubert der doppelganger'
    [key |-> <<"s","c","h","u","b","e","r","t"," ","d","e","r"," ","d","o","p","p","e","l","g","a","n","g","e","r">>,
     mapping |-> [full_title |-> "Schwanengesang, D.957", composer |-> "Schubert, Franz",
                 imslp_url |-> "https://imslp.org/wiki/Schwanengesang,_D.957_(Schubert,_Franz)",
                 note |-> "\"Der Doppelg?§nger\" is No.13 in Schwanengesang song cycle"]],
    \* 'purcell when i am laid in earth'
    [key |-> <<"p","u","r","c","e","l","l"," ","w","h","e","n"," ","i"," ","a","m"," ","l","a","i","d"," ","i","n"," ","e","a","r","t","h">>,
     mapping |-> [full_title |-> "Dido and Aeneas, Z.626", composer |-> "Purcell, Henry",
                 imslp_url |-> "https://imslp.org/wiki/Dido_and_Aeneas,_Z.626_(Purcell,_Henry)",
                 note |-> "\"When I am laid in earth\" is Dido's Lament from the opera"]],
    \* 'fanny mendelssohn trio'
    [key |-> <<"f","a","n","n","y"," ","m","e","n","d","e","l","s","s","o","h","n"," ","t","r","i","o">>,
     mapping |-> [full_title |-> "Piano Trio, Op.11", composer |-> "Hensel, Fanny",
                 imslp_url |-> "https://imslp.org/wiki/Piano_Trio,_Op.11_(Hensel,_Fanny)",
                 note |-> "Fanny Mendelssohn-Hensel is catalogued under \"Hensel, Fanny\" on IMSLP"]],
    \* 'hensel trio'
    [key |-> <<"h","e","n","s","e","l"," ","t","r","i","o">>,
     mapping |-> [full_title |-> "Piano Trio, Op.11", composer |-> "Hensel, Fanny",
                 imslp_url |-> "https://imslp.org/wiki/Piano_Trio,_Op.11_(Hensel,_Fanny)",
                 note |-> "Alternative name for Fanny Mendelssohn"]],
    \* 'anna magdalena bach march'
    [key |-> <<"a","n","n","a"," ","m","a","g","d","a","l","e","n","a"," ","b","a","c","h"," ","m","a","r","c","h">>,
     mapping |-> [full_title |-> "Notebook for Anna Magdalena Bach, BWV Anh.113-132", composer |-> "Bach, Johann Sebastian",
                 imslp_url |-> "https://imslp.org/wiki/Notebook_for_Anna_Magdalena_Bach,_BWV_Anh.113-132_(Bach,_Johann_Sebastian)",
                 note |-> "March in D major, BWV Anh.122 is from Anna Magdalena Bach's Notebook"]],
    \* 'bach anna magdalena'
    [key |-> <<"b","a","c","h"," ","a","n","n","a"," ","m","a","g","d","a","l","e","n","a">>,
     mapping |-> [full_title |-> "Notebook for Anna Magdalena Bach, BWV Anh.113-132", composer |-> "Bach, Johann Sebastian",
                 imslp_url |-> "https://imslp.org/wiki/Notebook_for_Anna_Magdalena_Bach,_BWV_Anh.113-132_(Bach,_Johann_Sebastian)",
                 note |-> "Collection includes various pieces attributed to Bach and others"]],
    \* 'mozart piano concerto k 107'
    [key |-> <<"m","o","z","a","r","t"," ","p","i","a","n","o"," ","c","o","n","c","e","r","t","o"," ","k"," ","1","0","7">>,
     mapping |-> [full_title |-> "Piano Concerto No.1, K.37", composer |-> "Mozart, Wolfgang Amadeus",
                 imslp_url |-> "https://imslp.org/wiki/Piano_Concerto_No.1,_K.37_(Mozart,_Wolfgang_Amadeus)",
                 note |-> "K.107 refers to early concertos, K.37 is the first numbered piano concerto"]],
    \* 'mozart piano concerto k 271'
    [key |-> <<"m","o","z","a","r","t"," ","p","i","a","n","o"," ","c","o","n","c","e","r","t","o"," ","k"," ","2","7","1">>,
     mapping |-> [full_title |-> "Piano Concerto No.9, K.271", composer |-> "Mozart, Wolfgang Amadeus",
                 imslp_url |-> "https://imslp.org/wiki/Piano_Concerto_No.9,_K.271_(Mozart,_Wolfgang_Amadeus)"]],
    \* 'mozart clarinet concerto'
    [key |-> <<"m","o","z","a","r","t"," ","c","l","a","r","i","n","e","t"," ","c","o","n","c","e","r","t","o">>,
     mapping |-> [full_title |-> "Clarinet Concerto, K.622", composer |-> "Mozart, Wolfgang Amadeus",
                 imslp_url |-> "https://imslp.org/wiki/Clarinet_Concerto,_K.622_(Mozart,_Wolfgang_Amadeus)"]],
    \* 'mozart piano concerto k 246'
    [key |-> <<"m","o","z","a","r","t"," ","p","i","a","n","o"," ","c","o","n","c","e","r","t","o"," ","k"," ","2","4","6">>,
     mapping |-> [full_title |-> "Piano Concerto No.8, K.246", composer |-> "Mozart, Wolfgang Amadeus",
                 imslp_url |-> "https://imslp.org/wiki/Piano_Concerto_No.8,_K.246_(Mozart,_Wolfgang_Amadeus)"]],
    \* 'mozart piano sonata k. 333'
    [key |-> <<"m","o","z","a","r","t"," ","p","i","a","n","o"," ","s","o","n","a","t","a"," ","k","."," ","3","3","3">>,
     mapping |-> [full_title |-> "Piano Sonata No.13, K.333/315c", composer |-> "Mozart, Wolfgang Amadeus",
                 imslp_url |-> "https://imslp.org/wiki/Piano_Sonata_No.13,_K.333/315c_(Mozart,_Wolfgang_Amadeus)"]],
    \* 'brahms clarinet sonata'
    [key |-> <<"b","r","a","h","m","s"," ","c","l","a","r","i","n","e","t"," ","s","o","n","a","t","a">>,
     mapping |-> [full_title |-> "Clarinet Sonata No.1, Op.120 No.1", composer |-> "Brahms, Johannes",
                 imslp_url |-> "https://imslp.org/wiki/Clarinet_Sonata_No.1,_Op.120_No.1_(Brahms,_Johannes)"]],
    \* 'haydn piano sonata hob. xvi 37'
    [key |-> <<"h","a","y","d","n"," ","p","i","a","n","o"," ","s","o","n","a","t","a"," ","h","o","b","."," ","x","v","i"," ","3","7">>,
     mapping |-> [full_title |-> "Piano Sonata No.37, Hob.XVI:37", composer |-> "Haydn, Joseph",
                 imslp_url |-> "https://imslp.org/wiki/Piano_Sonata_No.37,_Hob.XVI:37_(Haydn,_Joseph)"]],
    \* 'haydn piano sonata hob xvi:3'
    [key |-> <<"h","a","y","d","n"," ","p","i","a","n","o"," ","s","o","n","a","t","a"," ","h","o","b"," ","x","v","i",":","3">>,
     mapping |-> [full_title |-> "Piano Sonata No.3, Hob.XVI:3", composer |-> "Haydn, Joseph",
                 imslp_url |-> "https://imslp.org/wiki/Piano_Sonata_No.3,_Hob.XVI:3_(Haydn,_Joseph)"]],
    \* 'haydn piano sonata hob. xvi/20'
    [key |-> <<"h","a","y","d","n"," ","p","i","a","n","o"," ","s","o","n","a","t","a"," ","h","o","b","."," ","x","v","i","/","2","0">>,
     mapping |-> [full_title |-> "Piano Sonata No.33, Hob.XVI:20", composer |-> "Haydn, Joseph",
                 imslp_url |-> "https://imslp.org/wiki/Piano_Sonata_No.33,_Hob.XVI:20_(Haydn,_Joseph)"]],
    \* 'haydn piano sonata hob.xvi:38'
    [key |-> <<"h","a","y","d","n"," ","p","i","a","n","o"," ","s","o","n","a","t","a"," ","h","o","b",".","x","v","i",":","3","8">>,
     mapping |-> [full_title |-> "Piano Sonata No.38, Hob.XVI:38", composer |-> "Haydn, Joseph",
                 imslp_url |-> "https://imslp.org/wiki/Piano_Sonata_No.38,_Hob.XVI:38_(Haydn,_Joseph)"]],
    \* 'haydn op. 76, no. 3'
    [key |-> <<"h","a","y","d","n"," ","o","p","."," ","7","6",","," ","n","o","."," ","3">>,
     mapping |-> [full_title |-> "String Quartet Op.76 No.3, Hob.III:77", composer |-> "Haydn, Joseph",
                 imslp_url |-> "https://imslp.org/wiki/String_Quartet_Op.76_No.3,_Hob.III:77_(Haydn,_Joseph)",
                 note |-> "The famous \"Emperor\" quartet"]],
    \* 'bach gavottes'
    [key |-> <<"b","a","c","h"," ","g","a","v","o","t","t","e","s">>,
     mapping |-> [full_title |-> "Orchestral Suite No.3, BWV 1068", composer |-> "Bach, Johann Sebastian",
                 imslp_url |-> "https://imslp.org/wiki/Orchestral_Suite_No.3,_BWV_1068_(Bach,_Johann_Sebastian)",
                 note |-> "Contains the famous Gavottes"]],
    \* 'bach orchestral suite no. 3'
    [key |-> <<"b","a","c","h"," ","o","r","c","h","e","s","t","r","a","l"," ","s","u","i","t","e"," ","n","o","."," ","3">>,
     mapping |-> [full_title |-> "Orchestral Suite No.3, BWV 1068", composer |-> "Bach, Johann Sebastian",
                 imslp_url |-> "https://imslp.org/wiki/Orchestral_Suite_No.3,_BWV_1068_(Bach,_Johann_Sebastian)"]]
  >>

PerfectMappings ==
  <<
    \* 'mozart symphony 40'
    [key |-> <<"m","o","z","a","r","t"," ","s","y","m","p","h","o","n","y"," ","4","0">>,
     mapping |-> [full_title |-> "Symphony No.40, K.550", composer |-> "Mozart, Wolfgang Amadeus",
                 imslp_url |-> "https://imslp.org/wiki/Symphony_No.40,_K.550_(Mozart,_Wolfgang_Amadeus)"]],
    \* 'mozart symphony 36'
    [key |-> <<"m","o","z","a","r","t"," ","s","y","m","p","h","o","n","y"," ","3","6">>,
     mapping |-> [full_title |-> "Symphony No.36, K.425", composer |-> "Mozart, Wolfgang Amadeus",
                 imslp_url |-> "https://imslp.org/wiki/Symphony_No.36,_K.425_(Mozart,_Wolfgang_Amadeus)"]],
    \* 'mozart symphony 35'
    [key |-> <<"m","o","z","a","r","t"," ","s","y","m","p","h","o","n","y"," ","3","5">>,
     mapping |-> [full_title |-> "Symphony No.35, K.385", composer |-> "Mozart, Wolfgang Amadeus",
                 imslp_url |-> "https://imslp.org/wiki/Symphony_No.35,_K.385_(Mozart,_Wolfgang_Amadeus)"]],
    \* 'mozart eine kleine nachtmusik'
    [key |-> <<"m","o","z","a","r","t"," ","e","i","n","e"," ","k","l","e","i","n","e"," ","n","a","c","h","t","m","u","s","i","k">>,
     mapping |-> [full_title |-> "Eine kleine Nachtmusik, K.525", composer |-> "Mozart, Wolfgang Amadeus",
                 imslp_url |-> "https://imslp.org/wiki/Eine_kleine_Nachtmusik,_K.525_(Mozart,_Wolfgang_Amadeus)"]],
    \* 'mozart piano concerto k 271'
    [key |-> <<"m","o","z","a","r","t"," ","p","i","a","n","o"," ","c","o","n","c","e","r","t","o"," ","k"," ","2","7","1">>,
     mapping |-> [full_title |-> "Piano Concerto No.9, K.271", composer |-> "Mozart, Wolfgang Amadeus",
                 imslp_url |-> "https://imslp.org/wiki/Piano_Concerto_No.9,_K.271_(Mozart,_Wolfgang_Amadeus)"]],
    \* 'mozart clarinet concerto'
    [key |-> <<"m","o","z","a","r","t"," ","c","l","a","r","i","n","e","t"," ","c","o","n","c","e","r","t","o">>,
     mapping |-> [full_title |-> "Clarinet Concerto, K.622", composer |-> "Mozart, Wolfgang Amadeus",
                 imslp_url |-> "https://imslp.org/wiki/Clarinet_Concerto,_K.622_(Mozart,_Wolfgang_Amadeus)"]],
    \* 'mozart piano concerto k 246'
    [key |-> <<"m","o","z","a","r","t"," ","p","i","a","n","o"," ","c","o","n","c","e","r","t","o"," ","k"," ","2","4","6">>,
     mapping |-> [full_title |-> "Piano Concerto No.8, K.246", composer |-> "Mozart, Wolfgang Amadeus",
                 imslp_url |-> "https://imslp.org/wiki/Piano_Concerto_No.8,_K.246_(Mozart,_Wolfgang_Amadeus)"]],
    \* 'mozart piano sonata k. 333'
    [key |-> <<"m","o","z","a","r","t"," ","p","i","a","n","o"," ","s","o","n","a","t","a"," ","k","."," ","3","3","3">>,
     mapping |-> [full_title |-> "Piano Sonata No.13, K.333/315c", composer |-> "Mozart, Wolfgang Amadeus",
                 imslp_url |-> "https://imslp.org/wiki/Piano_Sonata_No.13,_K.333/315c_(Mozart,_Wolfgang_Amadeus)"]],
    \* 'mozart piano concerto k 107'
    [key |-> <<"m","o","z","a","r","t"," ","p","i","a","n","o"," ","c","o","n","c","e","r","t","o"," ","k"," ","1","0","7">>,
     mapping |-> [full_title |-> "Piano Concerto No.1, K.37", composer |-> "Mozart, Wolfgang Amadeus",
                 imslp_url |-> "https://imslp.org/wiki/Piano_Concerto_No.1,_K.37_(Mozart,_Wolfgang_Amadeus)"]],
    \* 'beethoven piano sonata no 8'
    [key |-> <<"b","e","e","t","h","o","v","e","n"," ","p","i","a","n","o"," ","s","o","n","a","t","a"," ","n","o"," ","8">>,
     mapping |-> [full_title |-> "Piano Sonata No.8, Op.13", composer |-> "Beethoven, Ludwig van",
                 imslp_url |-> "https://imslp.org/wiki/Piano_Sonata_No.8,_Op.13_(Beethoven,_Ludwig_van)"]],
    \* 'beethoven piano sonata no. 21'
    [key |-> <<"b","e","e","t","h","o","v","e","n"," ","p","i","a","n","o"," ","s","o","n","a","t","a"," ","n","o","."," ","2","1">>,
     mapping |-> [full_title |-> "Piano Sonata No.21, Op.53", composer |-> "Beethoven, Ludwig van",
                 imslp_url |-> "https://imslp.org/wiki/Piano_Sonata_No.21,_Op.53_(Beethoven,_Ludwig_van)"]],
    \* 'beethoven piano sonata no. 15'
    [key |-> <<"b","e","e","t","h","o","v","e","n"," ","p","i","a","n","o"," ","s","o","n","a","t","a"," ","n","o","."," ","1","5">>,
     mapping |-> [full_title |-> "Piano Sonata No.15, Op.28", composer |-> "Beethoven, Ludwig van",
                 imslp_url |-> "https://imslp.org/wiki/Piano_Sonata_No.15,_Op.28_(Beethoven,_Ludwig_van)"]],
    \* 'beethoven piano sonata no. 20'
    [key |-> <<"b","e","e","t","h","o","v","e","n"," ","p","i","a","n","o"," ","s","o","n","a","t","a"," ","n","o","."," ","2","0">>,
     mapping |-> [full_title |-> "Piano Sonata No.20, Op.49 No.2", composer |-> "Beethoven, Ludwig van",
                 imslp_url |-> "https://imslp.org/wiki/Piano_Sonata_No.20,_Op.49_No.2_(Beethoven,_Ludwig_van)"]],
    \* 'bach french suite no 6'
    [key |-> <<"b","a","c","h"," ","f","r","e","n","c","h"," ","s","u","i","t","e"," ","n","o"," ","6">>,
     mapping |-> [full_title |-> "French Suite No.6, BWV 817", composer |-> "Bach, Johann Sebastian",
                 imslp_url |-> "https://imslp.org/wiki/French_Suite_No.6,_BWV_817_(Bach,_Johann_Sebastian)"]],
    \* 'bach cello suite no 3'
    [key |-> <<"b","a","c","h"," ","c","e","l","l","o"," ","s","u","i","t","e"," ","n","o"," ","3">>,
     mapping |-> [full_title |-> "Cello Suite No.3, BWV 1009", composer |-> "Bach, Johann Sebastian",
                 imslp_url |-> "https://imslp.org/wiki/Cello_Suite_No.3,_BWV_1009_(Bach,_Johann_Sebastian)"]],
    \* 'bach well-tempered clavier'
    [key |-> <<"b","a","c","h"," ","w","e","l","l","-","t","e","m","p","e","r","e","d"," ","c","l","a","v","i","e","r">>,
     mapping |-> [full_title |-> "Well-Tempered Clavier I, BWV 846-869", composer |-> "Bach, Johann Sebastian",
                 imslp_url |-> "https://imslp.org/wiki/Well-Tempered_Clavier_I,_BWV_846-869_(Bach,_Johann_Sebastian)"]],
    \* 'bach wtc'
    [key |-> <<"b","a","c","h"," ","w","t","c">>,
     mapping |-> [full_title |-> "Well-Tempered Clavier I, BWV 846-869", composer |-> "Bach, Johann Sebastian",
                 imslp_url |-> "https://imslp.org/wiki/Well-Tempered_Clavier_I,_BWV_846-869_(Bach,_Johann_Sebastian)"]],
    \* 'bach wtc book 2'
    [key |-> <<"b","a","c","h"," ","w","t","c"," ","b","o","o","k"," ","2">>,
     mapping |-> [full_title |-> "Well-Tempered Clavier II, BWV 870-893", composer |-> "Bach, Johann Sebastian",
                 imslp_url |-> "https://imslp.org/wiki/Well-Tempered_Clavier_II,_BWV_870-893_(Bach,_Johann_Sebastian)"]],
    \* 'bach brandenburg concerto no 5'
    [key |-> <<"b","a","c","h"," ","b","r","a","n","d","e","n","b","u","r","g"," ","c","o","n","c","e","r","t","o"," ","n","o"," ","5">>,
     mapping |-> [full_title |-> "Brandenburg Concerto No.5, BWV 1050", composer |-> "Bach, Johann Sebastian",
                 imslp_url |-> "https://imslp.org/wiki/Brandenburg_Concerto_No.5,_BWV_1050_(Bach,_Johann_Sebastian)"]],
    \* 'bach brandenburg concerto no 2'
    [key |-> <<"b","a","c","h"," ","b","r","a","n","d","e","n","b","u","r","g"," ","c","o","n","c","e","r","t","o"," ","n","o"," ","2">>,
     mapping |-> [full_title |-> "Brandenburg Concerto No.2, BWV 1047", composer |-> "Bach, Johann Sebastian",
                 imslp_url |-> "https://imslp.org/wiki/Brandenburg_Concerto_No.2,_BWV_1047_(Bach,_Johann_Sebastian)"]],
    \* 'anna magdalena bach march'
    [key |-> <<"a","n","n","a"," ","m","a","g","d","a","l","e","n","a"," ","b","a","c","h"," ","m","a","r","c","h">>,
     mapping |-> [full_title |-> "Notebook for Anna Magdalena Bach, BWV Anh.113-132", composer |-> "Bach, Johann Sebastian",
                 imslp_url |-> "https://imslp.org/wiki/Notebook_for_Anna_Magdalena_Bach,_BWV_Anh.113-132_(Bach,_Johann_Sebastian)",
                 note |-> "March in D major, BWV Anh.122 is from Anna Magdalena Bach's Notebook"]],
    \* 'bach orchestral suite no. 3'
    [key |-> <<"b","a","c","h"," ","o","r","c","h","e","s","t","r","a","l"," ","s","u","i","t","e"," ","n","o","."," ","3">>,
     mapping |-> [full_title |-> "Orchestral Suite No.3, BWV 1068", composer |-> "Bach, Johann Sebastian",
                 imslp_url |-> "https://imslp.org/wiki/Orchestral_Suite_No.3,_BWV_1068_(Bach,_Johann_Sebastian)",
                 note |-> "Contains the famous Gavottes"]],
    \* 'bach gavottes'
    [key |-> <<"b","a","c","h"," ","g","a","v","o","t","t","e","s">>,
     mapping |-> [full_title |-> "Orchestral Suite No.3, BWV 1068", composer |-> "Bach, Johann Sebastian",
                 imslp_url |-> "https://imslp.org/wiki/Orchestral_Suite_No.3,_BWV_1068_(Bach,_Johann_Sebastian)",
                 note |-> "Contains the famous Gavottes"]],
    \* 'haydn symphony 103'
    [key |-> <<"h","a","y","d","n"," ","s","y","m","p","h","o","n","y"," ","1","0","3">>,
     mapping |-> [full_title |-> "Symphony No.103, Hob.I:103", composer |-> "Haydn, Joseph",
                 imslp_url |-> "https://imslp.org/wiki/Symphony_No.103,_Hob.I:103_(Haydn,_Joseph)"]],
    \* 'haydn symphony 101'
    [key |-> <<"h","a","y","d","n"," ","s","y","m","p","h","o","n","y"," ","1","0","1">>,
     mapping |-> [full_title |-> "Symphony No.101, Hob.I:101", composer |-> "Haydn, Joseph",
                 imslp_url |-> "https://imslp.org/wiki/Symphony_No.101,_Hob.I:101_(Haydn,_Joseph)"]],
    \* 'haydn piano sonata hob. xvi 37'
    [key |-> <<"h","a","y","d","n"," ","p","i","a","n","o"," ","s","o","n","a","t","a"," ","h","o","b","."," ","x","v","i"," ","3","7">>,
     mapping |-> [full_title |-> "Piano Sonata No.37, Hob.XVI:37", composer |-> "Haydn, Joseph",
                 imslp_url |-> "https://imslp.org/wiki/Piano_Sonata_No.37,_Hob.XVI:37_(Haydn,_Joseph)"]],
    \* 'haydn piano sonata hob xvi:3'
    [key |-> <<"h","a","y","d","n"," ","p","i","a","n","o"," ","s","o","n","a","t","a"," ","h","o","b"," ","x","v","i",":","3">>,
     mapping |-> [full_title |-> "Piano Sonata No.3, Hob.XVI:3", composer |-> "Haydn, Joseph",
                 imslp_url |-> "https://imslp.org/wiki/Piano_Sonata_No.3,_Hob.XVI:3_(Haydn,_Joseph)"]],
    \* 'haydn piano sonata hob. xvi/20'
    [key |-> <<"h","a","y","d","n"," ","p","i","a","n","o"," ","s","o","n","a","t","a"," ","h","o","b","."," ","x","v","i","/","2","0">>,
     mapping |-> [full_title |-> "Piano Sonata No.33, Hob.XVI:20", composer |-> "Haydn, Joseph",
                 imslp_url |-> "https://imslp.org/wiki/Piano_Sonata_No.33,_Hob.XVI:20_(Haydn,_Joseph)"]],
    \* 'haydn piano sonata hob.xvi:38'
    [key |-> <<"h","a","y","d","n"," ","p","i","a","n","o"," ","s","o","n","a","t","a"," ","h","o","b",".","x","v","i",":","3","8">>,
     mapping |-> [full_title |-> "Piano Sonata No.38, Hob.XVI:38", composer |-> "Haydn, Joseph",
                 imslp_url |-> "https://imslp.org/wiki/Piano_Sonata_No.38,_Hob.XVI:38_(Haydn,_Joseph)"]],
    \* 'haydn op. 76, no. 3'
    [key |-> <<"h","a","y","d","n"," ","o","p","."," ","7","6",","," ","n","o","."," ","3">>,
     mapping |-> [full_title |-> "String Quartet Op.76 No.3, Hob.III:77", composer |-> "Haydn, Joseph",
                 imslp_url |-> "https://imslp.org/wiki/String_Quartet_Op.76_No.3,_Hob.III:77_(Haydn,_Joseph)",
                 note |-> "The famous \"Emperor\" quartet"]],
    \* 'vivaldi winter'
    [key |-> <<"v","i","v","a","l","d","i"," ","w","i","n","t","e","r">>,
     mapping |-> [full_title |-> "The Four Seasons, Op.8", composer |-> "Vivaldi, Antonio",
                 imslp_url |-> "https://imslp.org/wiki/The_Four_Seasons,_Op.8_(Vivaldi,_Antonio)"]],
    \* 'vivaldi summer'
    [key |-> <<"v","i","v","a","l","d","i"," ","s","u","m","m","e","r">>,
     mapping |-> [full_title |-> "The Four Seasons, Op.8", composer |-> "Vivaldi, Antonio",
                 imslp_url |-> "https://imslp.org/wiki/The_Four_Seasons,_Op.8_(Vivaldi,_Antonio)"]],
    \* 'schumann novelletten'
    [key |-> <<"s","c","h","u","m","a","n","n"," ","n","o","v","e","l","l","e","t","t","e","n">>,
     mapping |-> [full_title |-> "8 Novelletten, Op.21", composer |-> "Schumann, Robert",
                 imslp_url |-> "https://imslp.org/wiki/8_Novelletten,_Op.21_(Schumann,_Robert)"]],
    \* 'schubert kennst du das land'
    [key |-> <<"s","c","h","u","b","e","r","t"," ","k","e","n","n","s","t"," ","d","u"," ","d","a","s"," ","l","a","n","d">>,
     mapping |-> [full_title |-> "Mignon Songs, D.321", composer |-> "Schubert, Franz",
                 imslp_url |-> "https://imslp.org/wiki/Mignon_Songs,_D.321_(Schubert,_Franz)",
                 note |-> "\"Kennst du das Land\" is part of the Mignon Songs"]],
    \* 'schubert der doppelganger'
    [key |-> <<"s","c","h","u","b","e","r","t"," ","d","e","r"," ","d","o","p","p","e","l","g","a","n","g","e","r">>,
     mapping |-> [full_title |-> "Schwanengesang, D.957", composer |-> "Schubert, Franz",
                 imslp_url |-> "https://imslp.org/wiki/Schwanengesang,_D.957_(Schubert,_Franz)",
                 note |-> "\"Der Doppelg?§nger\" is No.13 in Schwanengesang song cycle"]],
    \* 'purcell when i am laid in earth'
    [key |-> <<"p","u","r","c","e","l","l"," ","w","h","e","n"," ","i"," ","a","m"," ","l","a","i","d"," ","i","n"," ","e","a","r","t","h">>,
     mapping |-> [full_title |-> "Dido and Aeneas, Z.626", composer |-> "Purcell, Henry",
                 imslp_url |-> "https://imslp.org/wiki/Dido_and_Aeneas,_Z.626_(Purcell,_Henry)",
                 note |-> "\"When I am laid in earth\" is Dido's Lament from the opera"]],
    \* 'fanny mendelssohn trio'
    [key |-> <<"f","a","n","n","y"," ","m","e","n","d","e","l","s","s","o","h","n"," ","t","r","i","o">>,
     mapping |-> [full_title |-> "Piano Trio, Op.11", composer |-> "Hensel, Fanny",
                 imslp_url |-> "https://imslp.org/wiki/Piano_Trio,_Op.11_(Hensel,_Fanny)",
                 note |-> "Fanny Mendelssohn-Hensel is catalogued under \"Hensel, Fanny\" on IMSLP"]],
    \* 'brahms clarinet sonata'
    [key |-> <<"b","r","a","h","m","s"," ","c","l","a","r","i","n","e","t"," ","s","o","n","a","t","a">>,
     mapping |-> [full_title |-> "Clarinet Sonata No.1, Op.120 No.1", composer |-> "Brahms, Johannes",
                 imslp_url |-> "https://imslp.org/wiki/Clarinet_Sonata_No.1,_Op.120_No.1_(Brahms,_Johannes)"]]
  >>

WorkMappings ==
  <<
    \* 'mozart symphony 40'
    [key |-> <<"m","o","z","a","r","t"," ","s","y","m","p","h","o","n","y"," ","4","0">>,
     mapping |-> [full_title |-> "Symphony No.40, K.550", composer |-> "Mozart, Wolfgang Amadeus",
                 imslp_url |-> "https://imslp.org/wiki/Symphony_No.40,_K.550_(Mozart,_Wolfgang_Amadeus)"]],
    \* 'mozart symphony 36'
    [key |-> <<"m","o","z","a","r","t"," ","s","y","m","p","h","o","n","y"," ","3","6">>,
     mapping |-> [full_title |-> "Symphony No.36, K.425", composer |-> "Mozart, Wolfgang Amadeus",
                 imslp_url |-> "https://imslp.org/wiki/Symphony_No.36,_K.425_(Mozart,_Wolfgang_Amadeus)"]],
    \* 'mozart symphony 35'
    [key |-> <<"m","o","z","a","r","t"," ","s","y","m","p","h","o","n","y"," ","3","5">>,
     mapping |-> [full_title |-> "Symphony No.35, K.385", composer |-> "Mozart, Wolfgang Amadeus",
                 imslp_url |-> "https://imslp.org/wiki/Symphony_No.35,_K.385_(Mozart,_Wolfgang_Amadeus)"]],
    \* 'mozart eine kleine nachtmusik'
    [key |-> <<"m","o","z","a","r","t"," ","e","i","n","e"," ","k","l","e","i","n","e"," ","n","a","c","h","t","m","u","s","i","k">>,
     mapping |-> [full_title |-> "Eine kleine Nachtmusik, K.525", composer |-> "Mozart, Wolfgang Amadeus",
                 imslp_url |-> "https://imslp.org/wiki/Eine_kleine_Nachtmusik,_K.525_(Mozart,_Wolfgang_Amadeus)"]],
    \* 'beethoven piano sonata no 8'
    [key |-> <<"b","e","e","t","h","o","v","e","n"," ","p","i","a","n","o"," ","s","o","n","a","t","a"," ","n","o"," ","8">>,
     mapping |-> [full_title |-> "Piano Sonata No.8, Op.13", composer |-> "Beethoven, Ludwig van",
                 imslp_url |-> "https://imslp.org/wiki/Piano_Sonata_No.8,_Op.13_(Beethoven,_Ludwig_van)"]],
    \* 'beethoven piano sonata no. 21'
    [key |-> <<"b","e","e","t","h","o","v","e","n"," ","p","i","a","n","o"," ","s","o","n","a","t","a"," ","n","o","."," ","2","1">>,
     mapping |-> [full_title |-> "Piano Sonata No.21, Op.53", composer |-> "Beethoven, Ludwig van",
                 imslp_url |-> "https://imslp.org/wiki/Piano_Sonata_No.21,_Op.53_(Beethoven,_Ludwig_van)"]],
    \* 'beethoven piano sonata no. 15'
    [key |-> <<"b","e","e","t","h","o","v","e","n"," ","p","i","a","n","o"," ","s","o","n","a","t","a"," ","n","o","."," ","1","5">>,
     mapping |-> [full_title |-> "Piano Sonata No.15, Op.28", composer |-> "Beethoven, Ludwig van",
                 imslp_url |-> "https://imslp.org/wiki/Piano_Sonata_No.15,_Op.28_(Beethoven,_Ludwig_van)"]],
    \* 'beethoven piano sonata no. 20'
    [key |-> <<"b","e","e","t","h","o","v","e","n"," ","p","i","a","n","o"," ","s","o","n","a","t","a"," ","n","o","."," ","2","0">>,
     mapping |-> [full_title |-> "Piano Sonata No.20, Op.49 No.2", composer |-> "Beethoven, Ludwig van",
                 imslp_url |-> "https://imslp.org/wiki/Piano_Sonata_No.20,_Op.49_No.2_(Beethoven,_Ludwig_van)"]],
    \* 'bach french suite no 6'
    [key |-> <<"b","a","c","h"," ","f","r","e","n","c","h"," ","s","u","i","t","e"," ","n","o"," ","6">>,
     mapping |-> [full_title |-> "French Suite No.6, BWV 817", composer |-> "Bach, Johann Sebastian",
                 imslp_url |-> "https://imslp.org/wiki/French_Suite_No.6,_BWV_817_(Bach,_Johann_Sebastian)"]],
    \* 'bach cello suite no 3'
    [key |-> <<"b","a","c","h"," ","c","e","l","l","o"," ","s","u","i","t","e"," ","n","o"," ","3">>,
     mapping |-> [full_title |-> "Cello Suite No.3, BWV 1009", composer |-> "Bach, Johann Sebastian",
                 imslp_url |-> "https://imslp.org/wiki/Cello_Suite_No.3,_BWV_1009_(Bach,_Johann_Sebastian)"]],
    \* 'bach well-tempered clavier'
    [key |-> <<"b","a","c","h"," ","w","e","l","l","-","t","e","m","p","e","r","e","d"," ","c","l","a","v","i","e","r">>,
     mapping |-> [full_title |-> "Well-Tempered Clavier I, BWV 846-869", composer |-> "Bach, Johann Sebastian",
                 imslp_url |-> "https://imslp.org/wiki/Well-Tempered_Clavier_I,_BWV_846-869_(Bach,_Johann_Sebastian)"]],
    \* 'bach wtc'
    [key |-> <<"b","a","c","h"," ","w","t","c">>,
     mapping |-> [full_title |-> "Well-Tempered Clavier I, BWV 846-869", composer |-> "Bach, Johann Sebastian",
                 imslp_url |-> "https://imslp.org/wiki/Well-Tempered_Clavier_I,_BWV_846-869_(Bach,_Johann_Sebastian)"]],
    \* 'bach brandenburg concerto no 5'
    [key |-> <<"b","a","c","h"," ","b","r","a","n","d","e","n","b","u","r","g"," ","c","o","n","c","e","r","t","o"," ","n","o"," ","5">>,
     mapping |-> [full_title |-> "Brandenburg Concerto No.5, BWV 1050", composer |-> "Bach, Johann Sebastian",
                 imslp_url |-> "https://imslp.org/wiki/Brandenburg_Concerto_No.5,_BWV_1050_(Bach,_Johann_Sebastian)"]],
    \* 'bach brandenburg concerto no 2'
    [key |-> <<"b","a","c","h"," ","b","r","a","n","d","e","n","b","u","r","g"," ","c","o","n","c","e","r","t","o"," ","n","o"," ","2">>,
     mapping |-> [full_title |-> "Brandenburg Concerto No.2, BWV 1047", composer |-> "Bach, Johann Sebastian",
                 imslp_url |-> "https://imslp.org/wiki/Brandenburg_Concerto_No.2,_BWV_1047_(Bach,_Johann_Sebastian)"]],
    \* 'haydn symphony 103'
    [key |-> <<"h","a","y","d","n"," ","s","y","m","p","h","o","n","y"," ","1","0","3">>,
     mapping |-> [full_title |-> "Symphony No.103, Hob.I:103", composer |-> "Haydn, Joseph",
                 imslp_url |-> "https://imslp.org/wiki/Symphony_No.103,_Hob.I:103_(Haydn,_Joseph)"]],
    \* 'haydn symphony 101'
    [key |-> <<"h","a","y","d","n"," ","s","y","m","p","h","o","n","y"," ","1","0","1">>,
     mapping |-> [full_title |-> "Symphony No.101, Hob.I:101", composer |-> "Haydn, Joseph",
                 imslp_url |-> "https://imslp.org/wiki/Symphony_No.101,_Hob.I:101_(Haydn,_Joseph)"]],
    \* 'vivaldi winter'
    [key |-> <<"v","i","v","a","l","d","i"," ","w","i","n","t","e","r">>,
     mapping |-> [full_title |-> "The Four Seasons, Op.8", composer |-> "Vivaldi, Antonio",
                 imslp_url |-> "https://imslp.org/wiki/The_Four_Seasons,_Op.8_(Vivaldi,_Antonio)"]],
    \* 'vivaldi summer'
    [key |-> <<"v","i","v","a","l","d","i"," ","s","u","m","m","e","r">>,
     mapping |-> [full_title |-> "The Four Seasons, Op.8", composer |-> "Vivaldi, Antonio",
                 imslp_url |-> "https://imslp.org/wiki/The_Four_Seasons,_Op.8_(Vivaldi,_Antonio)"]],
    \* 'schumann novelletten'
    [key |-> <<"s","c","h","u","m","a","n","n"," ","n","o","v","e","l","l","e","t","t","e","n">>,
     mapping |-> [full_title |-> "8 Novelletten, Op.21", composer |-> "Schumann, Robert",
                 imslp_url |-> "https://imslp.org/wiki/8_Novelletten,_Op.21_(Schumann,_Robert)"]]
  >>

AdvancedWorkMappings ==
  <<
    \* 'mozart symphony 40'
    [key |-> <<"m","o","z","a","r","t"," ","s","y","m","p","h","o","n","y"," ","4","0">>,
     mapping |-> [full_title |-> "Symphony No.40, K.550", composer |-> "Mozart, Wolfgang Amadeus",
                 imslp_url |-> "https://imslp.org/wiki/Symphony_No.40,_K.550_(Mozart,_Wolfgang_Amadeus)"]],
    \* 'mozart symphony 36'
    [key |-> <<"m","o","z","a","r","t"," ","s","y","m","p","h","o","n","y"," ","3","6">>,
     mapping |-> [full_title |-> "Symphony No.36, K.425", composer |-> "Mozart, Wolfgang Amadeus",
                 imslp_url |-> "https://imslp.org/wiki/Symphony_No.36,_K.425_(Mozart,_Wolfgang_Amadeus)"]],
    \* 'mozart symphony 35'
    [key |-> <<"m","o","z","a","r","t"," ","s","y","m","p","h","o","n","y"," ","3","5">>,
     mapping |-> [full_title |-> "Symphony No.35, K.385", composer |-> "Mozart, Wolfgang Amadeus",
                 imslp_url |-> "https://imslp.org/wiki/Symphony_No.35,_K.385_(Mozart,_Wolfgang_Amadeus)"]],
    \* 'mozart eine kleine nachtmusik'
    [key |-> <<"m","o","z","a","r","t"," ","e","i","n","e"," ","k","l","e","i","n","e"," ","n","a","c","h","t","m","u","s","i","k">>,
     mapping |-> [full_title |-> "Eine kleine Nachtmusik, K.525", composer |-> "Mozart, Wolfgang Amadeus",
                 imslp_url |-> "https://imslp.org/wiki/Eine_kleine_Nachtmusik,_K.525_(Mozart,_Wolfgang_Amadeus)"]],
    \* 'beethoven piano sonata no 8'
    [key |-> <<"b","e","e","t","h","o","v","e","n"," ","p","i","a","n","o"," ","s","o","n","a","t","a"," ","n","o"," ","8">>,
     mapping |-> [full_title |-> "Piano Sonata No.8, Op.13", composer |-> "Beethoven, Ludwig van",
                 imslp_url |-> "https://imslp.org/wiki/Piano_Sonata_No.8,_Op.13_(Beethoven,_Ludwig_van)"]],
    \* 'beethoven piano sonata no. 21'
    [key |-> <<"b","e","e","t","h","o","v","e","n"," ","p","i","a","n","o"," ","s","o","n","a","t","a"," ","n","o","."," ","2","1">>,
     mapping |-> [full_title |-> "Piano Sonata No.21, Op.53", composer |-> "Beethoven, Ludwig van",
                 imslp_url |-> "https://imslp.org/wiki/Piano_Sonata_No.21,_Op.53_(Beethoven,_Ludwig_van)"]],
    \* 'beethoven piano sonata no. 15'
    [key |-> <<"b","e","e","t","h","o","v","e","n"," ","p","i","a","n","o"," ","s","o","n","a","t","a"," ","n","o","."," ","1","5">>,
     mapping |-> [full_title |-> "Piano Sonata No.15, Op.28", composer |-> "Beethoven, Ludwig van",
                 imslp_url |-> "https://imslp.org/wiki/Piano_Sonata_No.15,_Op.28_(Beethoven,_Ludwig_van)"]],
    \* 'beethoven piano sonata no. 20'
    [key |-> <<"b","e","e","t","h","o","v","e","n"," ","p","i","a","n","o"," ","s","o","n","a","t","a"," ","n","o","."," ","2","0">>,
     mapping |-> [full_title |-> "Piano Sonata No.20, Op.49 No.2", composer |-> "Beethoven, Ludwig van",
                 imslp_url |-> "https://imslp.org/wiki/Piano_Sonata_No.20,_Op.49_No.2_(Beethoven,_Ludwig_van)"]],
    \* 'bach french suite no 6'
    [key |-> <<"b","a","c","h"," ","f","r","e","n","c","h"," ","s","u","i","t","e"," ","n","o"," ","6">>,
     mapping |-> [full_title |-> "French Suite No.6, BWV 817", composer |-> "Bach, Johann Sebastian",
                 imslp_url |-> "https://imslp.org/wiki/French_Suite_No.6,_BWV_817_(Bach,_Johann_Sebastian)"]],
    \* 'bach cello suite no 3'
    [key |-> <<"b","a","c","h"," ","c","e","l","l","o"," ","s","u","i","t","e"," ","n","o"," ","3">>,
     mapping |-> [full_title |-> "Cello Suite No.3, BWV 1009", composer |-> "Bach, Johann Sebastian",
                 imslp_url |-> "https://imslp.org/wiki/Cello_Suite_No.3,_BWV_1009_(Bach,_Johann_Sebastian)"]],
    \* 'bach well-tempered clavier'
    [key |-> <<"b","a","c","h"," ","w","e","l","l","-","t","e","m","p","e","r","e","d"," ","c","l","a","v","i","e","r">>,
     mapping |-> [full_title |-> "Well-Tempered Clavier I, BWV 846-869", composer |-> "Bach, Johann Sebastian",
                 imslp_url |-> "https://imslp.org/wiki/Well-Tempered_Clavier_I,_BWV_846-869_(Bach,_Johann_Sebastian)"]],
    \* 'bach wtc'
    [key |-> <<"b","a","c","h"," ","w","t","c">>,
     mapping |-> [full_title |-> "Well-Tempered Clavier I, BWV 846-869", composer |-> "Bach, Johann Sebastian",
                 imslp_url |-> "https://imslp.org/wiki/Well-Tempered_Clavier_I,_BWV_846-869_(Bach,_Johann_Sebastian)"]],
    \* 'bach brandenburg concerto no 5'
    [key |-> <<"b","a","c","h"," ","b","r","a","n","d","e","n","b","u","r","g"," ","c","o","n","c","e","r","t","o"," ","n","o"," ","5">>,
     mapping |-> [full_title |-> "Brandenburg Concerto No.5, BWV 1050", composer |-> "Bach, Johann Sebastian",
                 imslp_url |-> "https://imslp.org/wiki/Brandenburg_Concerto_No.5,_BWV_1050_(Bach,_Johann_Sebastian)"]],
    \* 'bach brandenburg concerto no 2'
    [key |-> <<"b","a","c","h"," ","b","r","a","n","d","e","n","b","u","r","g"," ","c","o","n","c","e","r","t","o"," ","n","o"," ","2">>,
     mapping |-> [full_title |-> "Brandenburg Concerto No.2, BWV 1047", composer |-> "Bach, Johann Sebastian",
                 imslp_url |-> "https://imslp.org/wiki/Brandenburg_Concerto_No.2,_BWV_1047_(Bach,_Johann_Sebastian)"]],
    \* 'haydn symphony 103'
    [key |-> <<"h","a","y","d","n"," ","s","y","m","p","h","o","n","y"," ","1","0","3">>,
     mapping |-> [full_title |-> "Symphony No.103, Hob.I:103", composer |-> "Haydn, Joseph",
                 imslp_url |-> "https://imslp.org/wiki/Symphony_No.103,_Hob.I:103_(Haydn,_Joseph)"]],
    \* 'haydn symphony 101'
    [key |-> <<"h","a","y","d","n"," ","s","y","m","p","h","o","n","y"," ","1","0","1">>,
     mapping |-> [full_title |-> "Symphony No.101, Hob.I:101", composer |-> "Haydn, Joseph",
                 imslp_url |-> "https://imslp.org/wiki/Symphony_No.101,_Hob.I:101_(Haydn,_Joseph)"]],
    \* 'vivaldi winter'
    [key |-> <<"v","i","v","a","l","d","i"," ","w","i","n","t","e","r">>,
     mapping |-> [full_title |-> "The Four Seasons, Op.8", composer |-> "Vivaldi, Antonio",
                 imslp_url |-> "https://imslp.org/wiki/The_Four_Seasons,_Op.8_(Vivaldi,_Antonio)"]],
    \* 'vivaldi summer'
    [key |-> <<"v","i","v","a","l","d","i"," ","s","u","m","m","e","r">>,
     mapping |-> [full_title |-> "The Four Seasons, Op.8", composer |-> "Vivaldi, Antonio",
                 imslp_url |-> "https://imslp.org/wiki/The_Four_Seasons,_Op.8_(Vivaldi,_Antonio)"]],
    \* 'schumann novelletten'
    [key |-> <<"s","c","h","u","m","a","n","n"," ","n","o","v","e","l","l","e","t","t","e","n">>,
     mapping |-> [full_title |-> "8 Novelletten, Op.21", composer |-> "Schumann, Robert",
                 imslp_url |-> "https://imslp.org/wiki/8_Novelletten,_Op.21_(Schumann,_Robert)"]]
  >>

----------------------------------------------------------------------------
(* CompleteSolutionsProcessor                                              *)

\* basic_key: the "basic clean" of composer and title
Complete_basic_key(c, t) ==
    LET k0 == fmt(lower(c), lower(t))
        k1 == replace(replace(replace(k0, <<"m","v","t",".">>, <<>>), <<"m","v","t">>, <<>>), <<"m","o","v","e","m","e","n","t">>, <<>>)
        k2 == replace(replace(replace(k1, <<"a","l","l"," ","m","o","v","e","m","e","n","t","s">>, <<>>), <<"n","o",".">>, <<"n","o">>), <<"o","p",".">>, <<"o","p">>)
    IN  join(<<" ">>, split(k2))

\* key_terms: "composer + key musical terms", in the order of the if chain
Complete_key_terms(c, t) ==
    LET title_lower == lower(t)
        lc == lower(c)
        has(w) == contains(title_lower, w)
        when(cond, terms) == IF cond THEN terms ELSE <<>>
    IN  when(has(<<"s","o","n","a","t","a">>), <<fmt(lc, <<"p","i","a","n","o"," ","s","o","n","a","t","a">>)>>)
     \o when(has(<<"s","y","m","p","h","o","n","y">>), <<fmt(lc, <<"s","y","m","p","h","o","n","y">>)>>)
     \o when(has(<<"c","o","n","c","e","r","t","o">>), <<fmt(lc, <<"c","o","n","c","e","r","t","o">>)>>)
     \o when(has(<<"t","r","i","o">>), <<fmt(lc, <<"t","r","i","o">>)>>)
     \o when(has(<<"q","u","a","r","t","e","t">>), <<fmt(lc, <<"q","u","a","r","t","e","t">>)>>)
     \o when(has(<<"s","u","i","t","e">>), <<fmt(lc, <<"s","u","i","t","e">>)>>)
     \o when(has(<<"f","u","g","u","e">>) \/ has(<<"w","t","c">>),
             <<fmt(lc, <<"w","e","l","l","-","t","e","m","p","e","r","e","d"," ","c","l","a","v","i","e","r">>), fmt(lc, <<"w","t","c">>)>>)
     \o when(has(<<"b","r","a","n","d","e","n","b","u","r","g">>), <<fmt(lc, <<"b","r","a","n","d","e","n","b","u","r","g">>)>>)
     \o when(has(<<"g","a","v","o","t","t","e">>),
             <<fmt(lc, <<"o","r","c","h","e","s","t","r","a","l"," ","s","u","i","t","e">>), fmt(lc, <<"g","a","v","o","t","t","e","s">>)>>)
     \o when(has(<<"f","r","e","n","c","h"," ","s","u","i","t","e">>), <<fmt(lc, <<"f","r","e","n","c","h"," ","s","u","i","t","e">>)>>)
     \o when(has(<<"c","e","l","l","o"," ","s","u","i","t","e">>), <<fmt(lc, <<"c","e","l","l","o"," ","s","u","i","t","e">>)>>)
     \o when(has(<<"n","o","v","e","l","l","e","t","t","e","n">>), <<fmt(lc, <<"n","o","v","e","l","l","e","t","t","e","n">>)>>)
     \o when(has(<<"f","o","u","r"," ","s","e","a","s","o","n","s">>) \/ has(<<"w","i","n","t","e","r">>) \/ has(<<"s","u","m","m","e","r">>),
             <<fmt(lc, <<"w","i","n","t","e","r">>), fmt(lc, <<"s","u","m","m","e","r">>)>>)
     \o when(has(<<"a","n","n","a"," ","m","a","g","d","a","l","e","n","a">>) \/ has(<<"m","a","r","c","h"," ","i","n"," ","d">>),
             <<fmt(lc, <<"a","n","n","a"," ","m","a","g","d","a","l","e","n","a">>)>>)

\* mutant: the key terms are tried before basic_key
Complete_search_keys_terms_first(c, t) ==
    Complete_key_terms(c, t) \o <<Complete_basic_key(c, t)>>

\* search_keys: basic_key first, then the key terms
Complete_search_keys(c, t) == <<Complete_basic_key(c, t)>> \o Complete_key_terms(c, t)

\* mutant: no stop-words are removed
Complete_is_strong_match_keep_stop_words(search_key, mapping_key) ==
    LET search_words == set(split(search_key))
        mapping_words == set(split(mapping_key))
        common_words == search_words \cap mapping_words
    IN  IF search_words = {} \/ mapping_words = {} THEN FALSE
        ELSE IF Cardinality(common_words) < 2 THEN FALSE
        ELSE 10 * Cardinality(common_words) >= 7 * Cardinality(mapping_words)

\* mutant: the words in common are taken before the stop-words are removed
Complete_is_strong_match_raw_common(search_key, mapping_key) ==
    LET stop_words == {<<"n","o">>, <<"o","p">>, <<"i","n">>, <<"m","a","j","o","r">>, <<"m","i","n","o","r">>, <<"m","v","t">>, <<"m","o","v","e","m","e","n","t">>}
        common_words == set(split(search_key)) \cap set(split(mapping_key))
        search_words == set(split(search_key)) \ stop_words
        mapping_words == set(split(mapping_key)) \ stop_words
    IN  IF search_words = {} \/ mapping_words = {} THEN FALSE
        ELSE IF Cardinality(common_words) < 2 THEN FALSE
        ELSE 10 * Cardinality(common_words) >= 7 * Cardinality(mapping_words)

\* mutant: the ratio must exceed the threshold
Complete_is_strong_match_strict(search_key, mapping_key) ==
    LET stop_words == {<<"n","o">>, <<"o","p">>, <<"i","n">>, <<"m","a","j","o","r">>, <<"m","i","n","o","r">>, <<"m","v","t">>, <<"m","o","v","e","m","e","n","t">>}
        search_words == set(split(search_key)) \ stop_words
        mapping_words == set(split(mapping_key)) \ stop_words
        common_words == search_words \cap mapping_words
    IN  IF search_words = {} \/ mapping_words = {} THEN FALSE
        ELSE IF Cardinality(common_words) < 2 THEN FALSE
        ELSE 10 * Cardinality(common_words) > 7 * Cardinality(mapping_words)

\* mutant: a mapping word counts as common when the search key contains it
Complete_is_strong_match_substring(search_key, mapping_key) ==
    LET stop_words == {<<"n","o">>, <<"o","p">>, <<"i","n">>, <<"m","a","j","o","r">>, <<"m","i","n","o","r">>, <<"m","v","t">>, <<"m","o","v","e","m","e","n","t">>}
        search_words == set(split(search_key)) \ stop_words
        mapping_words == set(split(mapping_key)) \ stop_words
        common_words == {w \in mapping_words : contains(search_key, w)}
    IN  IF search_words = {} \/ mapping_words = {} THEN FALSE
        ELSE IF Cardinality(common_words) < 2 THEN FALSE
        ELSE 10 * Cardinality(common_words) >= 7 * Cardinality(mapping_words)

\* _is_strong_match.  match_ratio >= 0.7 is decided on integers:
\* len(common)/len(mapping_words) >= 0.7 iff 10*len(common) >= 7*len(mapping_words)
\* for every set size a key can have (the two doubles differ by at least
\* 1/(10*len) unless the quotient is exactly 7/10, which rounds to the
\* double of the literal 0.7).
Complete_is_strong_match(search_key, mapping_key) ==
    LET stop_words == {<<"n","o">>, <<"o","p">>, <<"i","n">>, <<"m","a","j","o","r">>, <<"m","i","n","o","r">>, <<"m","v","t">>, <<"m","o","v","e","m","e","n","t">>}
        search_words == set(split(search_key)) \ stop_words
        mapping_words == set(split(mapping_key)) \ stop_words
        common_words == search_words \cap mapping_words
    IN  IF search_words = {} \/ mapping_words = {} THEN FALSE
        ELSE IF Cardinality(common_words) < 2 THEN FALSE
        ELSE 10 * Cardinality(common_words) >= 7 * Cardinality(mapping_words)

RECURSIVE Complete_exact_matches(_, _, _)
\* for search_key in search_keys[j:]: if search_key in self.work_mappings: return ...
Complete_exact_matches(wm, search_keys, j) ==
    IF j > Len(search_keys) THEN None
    ELSE IF has_key(wm, search_keys[j]) THEN getitem(wm, search_keys[j])
    ELSE Complete_exact_matches(wm, search_keys, j + 1)

\* mutant: the scan returns the strong match with the highest match ratio
Complete_scan_best(wm, search_key, i) ==
    LET stop_words == {<<"n","o">>, <<"o","p">>, <<"i","n">>, <<"m","a","j","o","r">>, <<"m","i","n","o","r">>, <<"m","v","t">>, <<"m","o","v","e","m","e","n","t">>}
        words(k) == set(split(k)) \ stop_words
        common(n) == Cardinality(words(search_key) \cap words(wm[n].key))
        strong == {n \in i..Len(wm) : Complete_is_strong_match(search_key, wm[n].key)}
        better(n, m) ==
            \/ common(n) * Cardinality(words(wm[m].key)) > common(m) * Cardinality(words(wm[n].key))
            \/ /\ common(n) * Cardinality(words(wm[m].key)) = common(m) * Cardinality(words(wm[n].key))
               /\ n <= m
    IN  IF strong = {} THEN None
        ELSE CHOOSE n \in strong : \A m \in strong : better(n, m)

RECURSIVE Complete_scan(_, _, _)
\* for mapping_key, mapping in self.work_mappings.items()[i:]:
\*     if self._is_strong_match(search_key, mapping_key): return mapping
Complete_scan(wm, search_key, i) ==
    IF i > Len(wm) THEN None
    ELSE IF Complete_is_strong_match(search_key, wm[i].key) THEN i
    ELSE Complete_scan(wm, search_key, i + 1)

RECURSIVE Complete_partial_matches(_, _, _)
\* for search_key in search_keys[j:]: scan the table
Complete_partial_matches(wm, search_keys, j) ==
    IF j > Len(search_keys) THEN None
    ELSE LET hit == Complete_scan(wm, search_keys[j], 1)
         IN  IF hit # None THEN hit
             ELSE Complete_partial_matches(wm, search_keys, j + 1)

\* mutant: the ratio is computed before the two early returns
Complete_is_strong_match_raises_unguarded(search_key, mapping_key) ==
    LET stop_words == {<<"n","o">>, <<"o","p">>, <<"i","n">>, <<"m","a","j","o","r">>, <<"m","i","n","o","r">>, <<"m","v","t">>, <<"m","o","v","e","m","e","n","t">>}
        mapping_words == set(split(mapping_key)) \ stop_words
    IN  Cardinality(mapping_words) = 0

\* _is_strong_match raises ZeroDivisionError: the division
\* len(common_words) / len(mapping_words) is reached with no mapping word
Complete_is_strong_match_raises(search_key, mapping_key) ==
    LET stop_words == {<<"n","o">>, <<"o","p">>, <<"i","n">>, <<"m","a","j","o","r">>, <<"m","i","n","o","r">>, <<"m","v","t">>, <<"m","o","v","e","m","e","n","t">>}
        search_words == set(split(search_key)) \ stop_words
        mapping_words == set(split(mapping_key)) \ stop_words
        common_words == search_words \cap mapping_words
    IN  IF search_words = {} \/ mapping_words = {} THEN FALSE
        ELSE IF Cardinality(common_words) < 2 THEN FALSE
        ELSE Cardinality(mapping_words) = 0

RECURSIVE Complete_scan_raises(_, _, _)
\* the scan of the table from entry i raises before it returns
Complete_scan_raises(wm, search_key, i) ==
    IF i > Len(wm) THEN FALSE
    ELSE IF Complete_is_strong_match_raises(search_key, wm[i].key) THEN TRUE
    ELSE IF Complete_is_strong_match(search_key, wm[i].key) THEN FALSE
    ELSE Complete_scan_raises(wm, search_key, i + 1)

RECURSIVE Complete_partial_raises(_, _, _)
\* the partial matches from search key j raise before they return
Complete_partial_raises(wm, search_keys, j) ==
    IF j > Len(search_keys) THEN FALSE
    ELSE IF Complete_scan_raises(wm, search_keys[j], 1) THEN TRUE
    ELSE IF Complete_scan(wm, search_keys[j], 1) # None THEN FALSE
    ELSE Complete_partial_raises(wm, search_keys, j + 1)

\* an exception propagates out of CompleteSolutionsProcessor._find_work_mapping
\* (the exact lookups are guarded by `in` and raise nothing)
Complete_raises(wm, c, t) ==
    LET search_keys == Complete_search_keys(c, t)
    IN  /\ Complete_exact_matches(wm, search_keys, 1) = None
        /\ Complete_partial_raises(wm, search_keys, 1)

RECURSIVE Complete_strategies(_, _, _)
\* mutant helper: each search key is tried exactly, then partially, in turn
Complete_strategies(wm, search_keys, j) ==
    IF j > Len(search_keys) THEN None
    ELSE IF has_key(wm, search_keys[j]) THEN getitem(wm, search_keys[j])
    ELSE LET hit == Complete_scan(wm, search_keys[j], 1)
         IN  IF hit # None THEN hit
             ELSE Complete_strategies(wm, search_keys, j + 1)

\* mutant: exact and partial matches interleaved per search key
Complete_find_work_mapping_interleaved(wm, c, t) ==
    Complete_strategies(wm, Complete_search_keys(c, t), 1)

\* mutant: a mapping found by the previous call is returned again
Complete_find_work_mapping_cached(wm, c, t) ==
    LET search_keys == Complete_search_keys(c, t)
        exact == Complete_exact_matches(wm, search_keys, 1)
    IN  IF mapped_work # None THEN mapped_work
        ELSE IF exact # None THEN exact
        ELSE Complete_partial_matches(wm, search_keys, 1)

\* mutant: the partial matches are tried before the exact matches
Complete_find_work_mapping_partial_first(wm, c, t) ==
    LET search_keys == Complete_search_keys(c, t)
        partial == Complete_partial_matches(wm, search_keys, 1)
    IN  IF partial # None THEN partial
        ELSE Complete_exact_matches(wm, search_keys, 1)

\* CompleteSolutionsProcessor._find_work_mapping
Complete_find_work_mapping(wm, c, t) ==
    LET search_keys == Complete_search_keys(c, t)
        exact == Complete_exact_matches(wm, search_keys, 1)
    IN  IF exact # None THEN exact
        ELSE Complete_partial_matches(wm, search_keys, 1)

----------------------------------------------------------------------------
(* UltimateCSVProcessor and FinalPerfectProcessor: the two classes have    *)
(* the same _find_work_mapping and _is_good_match, line for line           *)

Ultimate_basic_key(c, t) ==
    LET k0 == fmt(lower(c), lower(t))
        k1 == replace(replace(k0, <<"m","v","t",".">>, <<>>), <<"m","v","t">>, <<>>)
        k2 == replace(replace(k1, <<"m","o","v","e","m","e","n","t">>, <<>>), <<"a","l","l"," ","m","o","v","e","m","e","n","t","s">>, <<>>)
    IN  join(<<" ">>, split(k2))

Ultimate_title_only(t) ==
    LET k1 == replace(replace(replace(lower(t), <<"m","v","t",".">>, <<>>), <<"m","v","t">>, <<>>), <<"m","o","v","e","m","e","n","t">>, <<>>)
    IN  join(<<" ">>, split(k1))

Ultimate_key_words ==
    <<<<"s","o","n","a","t","a">>, <<"s","y","m","p","h","o","n","y">>, <<"c","o","n","c","e","r","t","o">>, <<"t","r","i","o">>, <<"q","u","a","r","t","e","t">>, <<"s","u","i","t","e">>,
      <<"p","r","e","l","u","d","e">>, <<"f","u","g","u","e">>, <<"v","a","r","i","a","t","i","o","n">>>>

\* mutant: the composer + key-word keys in the order of the words in the title
Ultimate_composer_plus_keys_title_order(c, t, n) ==
    LET title_lower == lower(t)
        present == {m \in n..Len(Ultimate_key_words) : contains(title_lower, Ultimate_key_words[m])}
        pos(m) == CHOOSE i \in 1..Len(title_lower) :
                      /\ starts_at(title_lower, Ultimate_key_words[m], i)
                      /\ \A i2 \in 1..(i - 1) : ~starts_at(title_lower, Ultimate_key_words[m], i2)
        rank(m) == Cardinality({m2 \in present : pos(m2) < pos(m)})
    IN  [i \in 1..Cardinality(present) |->
            fmt(lower(c), Ultimate_key_words[CHOOSE m \in present : rank(m) = i - 1])]

RECURSIVE Ultimate_composer_plus_keys(_, _, _)
\* for word in key_words[n:]: if word in title.lower(): append composer + word
Ultimate_composer_plus_keys(c, t, n) ==
    IF n > Len(Ultimate_key_words) THEN <<>>
    ELSE (IF contains(lower(t), Ultimate_key_words[n])
          THEN <<fmt(lower(c), Ultimate_key_words[n])>> ELSE <<>>)
         \o Ultimate_composer_plus_keys(c, t, n + 1)

Ultimate_search_keys(c, t) ==
    <<Ultimate_basic_key(c, t), Ultimate_title_only(t)>> \o Ultimate_composer_plus_keys(c, t, 1)

\* _is_good_match: 0.6 is decided on integers as 10*len(common) >= 6*len(mapping_words)
Ultimate_is_good_match(search_key, mapping_key) ==
    LET search_words == set(split(search_key))
        mapping_words == set(split(mapping_key))
        common_words == search_words \cap mapping_words
    IN  IF Cardinality(common_words) < 2 THEN FALSE
        ELSE 10 * Cardinality(common_words) >= 6 * Cardinality(mapping_words)

\* FinalPerfectProcessor._is_good_match
Final_is_good_match(search_key, mapping_key) == Ultimate_is_good_match(search_key, mapping_key)

RECURSIVE Ultimate_scan_last(_, _, _)
\* mutant: the scan runs to the end of the table and keeps the last match
Ultimate_scan_last(wm, search_key, i) ==
    IF i > Len(wm) THEN None
    ELSE LET later == Ultimate_scan_last(wm, search_key, i + 1)
         IN  IF later # None THEN later
             ELSE IF Ultimate_is_good_match(search_key, wm[i].key) THEN i
             ELSE None

RECURSIVE Ultimate_scan(_, _, _)
\* for mapping_key, mapping in self.work_mappings.items()[i:]:
\*     if self._is_good_match(search_key, mapping_key): return mapping
Ultimate_scan(wm, search_key, i) ==
    IF i > Len(wm) THEN None
    ELSE IF Ultimate_is_good_match(search_key, wm[i].key) THEN i
    ELSE Ultimate_scan(wm, search_key, i + 1)

RECURSIVE Ultimate_strategies(_, _, _)
\* for search_key in search_keys[j:]: direct key match, then partial match
Ultimate_strategies(wm, search_keys, j) ==
    IF j > Len(search_keys) THEN None
    ELSE IF has_key(wm, search_keys[j]) THEN getitem(wm, search_keys[j])
    ELSE LET hit == Ultimate_scan(wm, search_keys[j], 1)
         IN  IF hit # None THEN hit
             ELSE Ultimate_strategies(wm, search_keys, j + 1)

\* _is_good_match raises ZeroDivisionError: the division is reached with no
\* mapping word
Ultimate_is_good_match_raises(search_key, mapping_key) ==
    LET search_words == set(split(search_key))
        mapping_words == set(split(mapping_key))
        common_words == search_words \cap mapping_words
    IN  IF Cardinality(common_words) < 2 THEN FALSE
        ELSE Cardinality(mapping_words) = 0

RECURSIVE Ultimate_scan_raises(_, _, _)
\* the scan of the table from entry i raises before it returns
Ultimate_scan_raises(wm, search_key, i) ==
    IF i > Len(wm) THEN FALSE
    ELSE IF Ultimate_is_good_match_raises(search_key, wm[i].key) THEN TRUE
    ELSE IF Ultimate_is_good_match(search_key, wm[i].key) THEN FALSE
    ELSE Ultimate_scan_raises(wm, search_key, i + 1)

RECURSIVE Ultimate_strategies_raise(_, _, _)
\* the strategies from search key j raise before they return
Ultimate_strategies_raise(wm, search_keys, j) ==
    IF j > Len(search_keys) THEN FALSE
    ELSE IF has_key(wm, search_keys[j]) THEN FALSE
    ELSE IF Ultimate_scan_raises(wm, search_keys[j], 1) THEN TRUE
    ELSE IF Ultimate_scan(wm, search_keys[j], 1) # None THEN FALSE
    ELSE Ultimate_strategies_raise(wm, search_keys, j + 1)

\* an exception propagates out of _find_work_mapping of UltimateCSVProcessor
\* and FinalPerfectProcessor
Ultimate_raises(wm, c, t) == Ultimate_strategies_raise(wm, Ultimate_search_keys(c, t), 1)

\* UltimateCSVProcessor._find_work_mapping
Ultimate_find_work_mapping(wm, c, t) ==
    Ultimate_strategies(wm, Ultimate_search_keys(c, t), 1)

\* FinalPerfectProcessor._find_work_mapping
Final_find_work_mapping(wm, c, t) ==
    Ultimate_strategies(wm, Ultimate_search_keys(c, t), 1)

----------------------------------------------------------------------------
(* ImprovedCSVProcessor and AdvancedScoreFinder: one cleaned search key,   *)
(* matched by substring tests                                              *)

Improved_search_key(c, t) ==
    LET k0 == fmt(lower(c), lower(t))
        k1 == replace(replace(k0, <<"m","v","t",".">>, <<>>), <<"m","v","t">>, <<>>)
        k2 == replace(replace(k1, <<"m","o","v","e","m","e","n","t">>, <<>>), <<"a","l","l"," ","m","o","v","e","m","e","n","t","s">>, <<>>)
    IN  join(<<" ">>, split(k2))

\* key in search_key or any(word in search_key for word in key.split())
Improved_key_matches(key, search_key) ==
    \/ contains(search_key, key)
    \/ \E word \in set(split(key)) : contains(search_key, word)

RECURSIVE Improved_scan(_, _, _)
Improved_scan(wm, search_key, i) ==
    IF i > Len(wm) THEN None
    ELSE IF Improved_key_matches(wm[i].key, search_key) THEN i
    ELSE Improved_scan(wm, search_key, i + 1)

\* ImprovedCSVProcessor._find_work_mapping
Improved_find_work_mapping(wm, c, t) == Improved_scan(wm, Improved_search_key(c, t), 1)

\* AdvancedScoreFinder._find_work_mapping
Advanced_find_work_mapping(wm, c, t) == Improved_scan(wm, Improved_search_key(c, t), 1)

----------------------------------------------------------------------------
(* The processor object and its _find_work_mapping calls                   *)

Processors == {"Complete", "Ultimate", "Final", "Improved", "Advanced"}

\* __init__: self.work_mappings = self._create_..._mappings()
BuiltinMappings(p) ==
    CASE p = "Complete" -> CompleteMappings
      [] p = "Ultimate" -> ComprehensiveMappings
      [] p = "Final"    -> PerfectMappings
      [] p = "Improved" -> WorkMappings
      [] p = "Advanced" -> AdvancedWorkMappings

\* bound on the number of calls whose history is kept
MaxCalls == 3

\* mutant: the call moves the mapping it returns to the front of the table
Call_move_to_front(c, t, ks, r) ==
    /\ composer' = c
    /\ title' = t
    /\ candidate_keys' = ks
    /\ mapped_work' = r
    /\ work_mappings' = IF r \in 1..Len(work_mappings)
                        THEN <<work_mappings[r]>> \o SubSeq(work_mappings, 1, r - 1)
                                 \o SubSeq(work_mappings, r + 1, Len(work_mappings))
                        ELSE work_mappings
    /\ UNCHANGED <<processor, test_search_key, test_mapping_key, match>>
    /\ UNCHANGED csv_vars
    /\ UNCHANGED net_vars

\* one call self._find_work_mapping(c, t) building the search keys ks and returning r
Call(c, t, ks, r) ==
    /\ composer' = c
    /\ title' = t
    /\ candidate_keys' = ks
    /\ mapped_work' = r
    /\ UNCHANGED <<processor, work_mappings, test_search_key, test_mapping_key, match>>
    /\ UNCHANGED csv_vars
    /\ UNCHANGED net_vars

Complete_call(c, t) ==
    /\ processor = "Complete"
    /\ Call(c, t, Complete_search_keys(c, t),
            IF Complete_raises(work_mappings, c, t) THEN Raised
            ELSE Complete_find_work_mapping(work_mappings, c, t))

Ultimate_call(c, t) ==
    /\ processor = "Ultimate"
    /\ Call(c, t, Ultimate_search_keys(c, t),
            IF Ultimate_raises(work_mappings, c, t) THEN Raised
            ELSE Ultimate_find_work_mapping(work_mappings, c, t))

Final_call(c, t) ==
    /\ processor = "Final"
    /\ Call(c, t, Ultimate_search_keys(c, t),
            IF Ultimate_raises(work_mappings, c, t) THEN Raised
            ELSE Final_find_work_mapping(work_mappings, c, t))

Improved_call(c, t) ==
    /\ processor = "Improved"
    /\ Call(c, t, <<Improved_search_key(c, t)>>, Improved_find_work_mapping(work_mappings, c, t))

Advanced_call(c, t) ==
    /\ processor = "Advanced"
    /\ Call(c, t, <<Improved_search_key(c, t)>>, Advanced_find_work_mapping(work_mappings, c, t))

\* one direct call of the fuzzy test, returning r
MatchCall(r) ==
    /\ calls = 0
    /\ calls' = 1
    /\ match' = r
    /\ UNCHANGED <<processor, work_mappings, composer, title, candidate_keys, mapped_work,
                   test_search_key, test_mapping_key, history>>
    /\ UNCHANGED csv_vars
    /\ UNCHANGED net_vars

Complete_is_strong_match_call ==
    /\ processor = "Complete"
    /\ MatchCall(Complete_is_strong_match(test_search_key, test_mapping_key))

Ultimate_is_good_match_call ==
    /\ processor = "Ultimate"
    /\ MatchCall(Ultimate_is_good_match(test_search_key, test_mapping_key))

Final_is_good_match_call ==
    /\ processor = "Final"
    /\ MatchCall(Final_is_good_match(test_search_key, test_mapping_key))

\* history of the _find_work_mapping calls made on the object
Observe ==
    /\ calls < MaxCalls
    /\ calls' = calls + 1
    /\ history' = Append(history, [composer |-> composer', title |-> title',
                                   mapped_work |-> mapped_work'])

----------------------------------------------------------------------------
(* Spec: a processor with its built-in table matches rows of a CSV file    *)

\* (composer, title) rows, stripped and non-empty as read_csv_works passes them
CsvRows ==
    { [composer |-> <<"M","o","z","a","r","t">>, title |-> <<"S","y","m","p","h","o","n","y"," ","N","o",".","4","0"," ","i","n"," ","G"," ","m","i","n","o","r",","," ","m","v","t","."," ","1">>],
      [composer |-> <<"B","a","c","h">>, title |-> <<"G","a","v","o","t","t","e","s"," ","f","r","o","m"," ","O","r","c","h","e","s","t","r","a","l"," ","S","u","i","t","e">>],
      [composer |-> <<"H","a","y","d","n">>, title |-> <<"P","i","a","n","o"," ","S","o","n","a","t","a">>],
      [composer |-> <<"C","h","o","p","i","n">>, title |-> <<"N","o","c","t","u","r","n","e">>] }

Init ==
    /\ processor \in Processors
    /\ work_mappings = BuiltinMappings(processor)
    /\ composer = <<>>
    /\ title = <<>>
    /\ candidate_keys = <<>>
    /\ mapped_work = None
    /\ test_search_key = <<>> /\ test_mapping_key = <<>> /\ match = FALSE
    /\ calls = 0
    /\ history = <<>>
    /\ CsvIdle
    /\ NetIdle

Next ==
    \/ \E row \in CsvRows : Complete_call(row.composer, row.title) /\ Observe
    \/ \E row \in CsvRows : Ultimate_call(row.composer, row.title) /\ Observe
    \/ \E row \in CsvRows : Final_call(row.composer, row.title) /\ Observe
    \/ \E row \in CsvRows : Improved_call(row.composer, row.title) /\ Observe
    \/ \E row \in CsvRows : Advanced_call(row.composer, row.title) /\ Observe

Spec == Init /\ [][Next]_vars


----------------------------------------------------------------------------
(* read_csv_works and process_csv_works.  A CSV file is the sequence of    *)
(* its lines, each a str without its line end; a quoted field lies on one  *)
(* line.                                                                   *)

RECURSIVE lstrip(_)
lstrip(s) == IF s # <<>> /\ s[1] \in Whitespace THEN lstrip(Tail(s)) ELSE s

RECURSIVE rstrip(_)
rstrip(s) ==
    IF s # <<>> /\ s[Len(s)] \in Whitespace THEN rstrip(SubSeq(s, 1, Len(s) - 1)) ELSE s

\* str.strip()
strip(s) == lstrip(rstrip(s))

RECURSIVE csv_fields(_, _, _, _)
\* the fields of line[i..], after the characters `field` of the current
\* field; inside double quotes a comma is a character of the field
csv_fields(line, i, field, quoted) ==
    IF i > Len(line) THEN <<field>>
    ELSE IF line[i] = "\"" THEN csv_fields(line, i + 1, field, ~quoted)
    ELSE IF line[i] = "," /\ ~quoted THEN <<field>> \o csv_fields(line, i + 1, <<>>, FALSE)
    ELSE csv_fields(line, i + 1, Append(field, line[i]), quoted)

\* the row csv.reader yields for a line: [] for an empty line
csv_reader_row(line) == IF line = <<>> THEN <<>> ELSE csv_fields(line, 1, <<>>, FALSE)

\* first_line = f.readline().strip()
first_line(file) == IF file = <<>> THEN <<>> ELSE strip(file[1])

\* the rows left in csv_reader when the loop starts:
\* if first_line == ',': next(csv_reader)
csv_reader(file) ==
    LET rows == [j \in 1..Len(file) |-> csv_reader_row(file[j])]
    IN  IF first_line(file) = <<",">> THEN Tail(rows) ELSE rows

\* mutant: the two columns are tested without strip()
row_is_work_unstripped(row) == Len(row) >= 2 /\ row[1] # <<>> /\ row[2] # <<>>

\* if len(row) >= 2 and row[0].strip() and row[1].strip()
row_is_work(row) == Len(row) >= 2 /\ strip(row[1]) # <<>> /\ strip(row[2]) # <<>>

RECURSIVE Complete_read_rows(_, _, _)
\* for row_num, row in enumerate(csv_reader, 1)[row_num:]: ... works.append(work)
Complete_read_rows(wm, rows, row_num) ==
    IF row_num > Len(rows) THEN <<>>
    ELSE LET row == rows[row_num]
             c == strip(row[1])
             t == strip(row[2])
         IN  (IF row_is_work(row)
              THEN <<[original_composer |-> c, original_title |-> t, csv_row |-> row_num,
                      mapped_work |-> IF Complete_raises(wm, c, t) THEN Raised
                                      ELSE Complete_find_work_mapping(wm, c, t)]>>
              ELSE <<>>)
             \o Complete_read_rows(wm, rows, row_num + 1)

\* CompleteSolutionsProcessor.read_csv_works: an exception is caught and
\* [] is returned
Complete_read_csv_works(wm, file) ==
    LET ws == Complete_read_rows(wm, csv_reader(file), 1)
    IN  IF \E i \in 1..Len(ws) : ws[i].mapped_work = Raised THEN <<>> ELSE ws

RECURSIVE CSVIMSLP_read_rows(_, _)
\* the loop of CSVIMSLPProcessor.read_csv_works: a row that looks like a
\* header is skipped
CSVIMSLP_read_rows(rows, row_num) ==
    IF row_num > Len(rows) THEN <<>>
    ELSE LET row == rows[row_num]
             c == strip(row[1])
             t == strip(row[2])
         IN  (IF row_is_work(row) /\ ~(lower(c) = <<"c","o","m","p","o","s","e","r">> \/ lower(t) = <<"t","i","t","l","e">>)
              THEN <<[composer |-> c, title |-> t, csv_row |-> row_num, url |-> "None",
                      search_attempted |-> FALSE, pdf_links_found |-> 0]>>
              ELSE <<>>)
             \o CSVIMSLP_read_rows(rows, row_num + 1)

\* CSVIMSLPProcessor.read_csv_works
CSVIMSLP_read_csv_works(file) == CSVIMSLP_read_rows(csv_reader(file), 1)

\* the _find_work_mapping calls made while the works ws were read
ReadCalls(ws) ==
    /\ calls' = calls + Len(ws)
    /\ history' = history \o [i \in 1..Len(ws) |->
                      [composer |-> ws[i].original_composer, title |-> ws[i].original_title,
                       mapped_work |-> ws[i].mapped_work]]
    /\ IF ws = <<>> THEN UNCHANGED <<composer, title, candidate_keys, mapped_work>>
       ELSE LET last == ws[Len(ws)]
            IN  /\ composer' = last.original_composer
                /\ title' = last.original_title
                /\ candidate_keys' = Complete_search_keys(last.original_composer, last.original_title)
                /\ mapped_work' = last.mapped_work

\* a call of CompleteSolutionsProcessor.read_csv_works
Complete_read_csv_works_call ==
    /\ pc = "start" /\ processor = "Complete"
    /\ works' = Complete_read_csv_works(work_mappings, csv_file)
    /\ ReadCalls(works')
    /\ pc' = "read"
    /\ UNCHANGED <<processor, work_mappings, test_search_key, test_mapping_key, match,
                   csv_file, processed_works, max_works>>
    /\ UNCHANGED net_vars

\* a call of CSVIMSLPProcessor.read_csv_works
CSVIMSLP_read_csv_works_call ==
    /\ pc = "start" /\ processor = "CSVIMSLP"
    /\ works' = CSVIMSLP_read_csv_works(csv_file)
    /\ pc' = "read"
    /\ UNCHANGED <<processor, work_mappings, composer, title, candidate_keys, mapped_work,
                   test_search_key, test_mapping_key, match, calls, history,
                   csv_file, processed_works, max_works>>
    /\ UNCHANGED net_vars

\* process_csv_works(csv_file, n) up to the loop:
\* works = self.read_csv_works(csv_file); if max_works: works = works[:max_works]
Complete_process_csv_works_begin(n) ==
    /\ pc = "start" /\ processor = "Complete"
    /\ max_works' = n
    /\ LET ws == Complete_read_csv_works(work_mappings, csv_file)
       IN  /\ ReadCalls(ws)
           /\ works' = IF n # None /\ n < Len(ws) THEN SubSeq(ws, 1, n) ELSE ws
    /\ processed_works' = <<>>
    /\ pc' = "loop"
    /\ UNCHANGED <<processor, work_mappings, test_search_key, test_mapping_key, match, csv_file>>
    /\ UNCHANGED net_vars

\* mutant: the loop also ends after a work without mapping
Complete_process_exhausted_on_no_mapping ==
    \/ Len(processed_works) >= Len(works)
    \/ /\ processed_works # <<>>
       /\ processed_works[Len(processed_works)].status = "no_mapping"

\* the for loop of process_csv_works has no work left
Complete_process_exhausted == Len(processed_works) >= Len(works)

\* work['mapped_work'].get('note', '')
get_note(mapping) == IF "note" \in DOMAIN mapping THEN mapping.note ELSE ""

\* mutant: the status 'mapped' is also given to a work without mapping
Complete_processed_always_mapped(wm, work, url_valid, n_links) ==
    IF work.mapped_work # None
    THEN [original_composer |-> work.original_composer,
          original_title |-> work.original_title,
          csv_row |-> work.csv_row,
          mapped_work |-> work.mapped_work,
          composer |-> wm[work.mapped_work].mapping.composer,
          title |-> wm[work.mapped_work].mapping.full_title,
          url |-> wm[work.mapped_work].mapping.imslp_url,
          status |-> "mapped",
          note |-> get_note(wm[work.mapped_work].mapping),
          url_valid |-> url_valid,
          pdf_links |-> IF url_valid THEN [k \in 1..n_links |-> "pdf_info"] ELSE <<>>,
          pdf_links_found |-> IF url_valid THEN n_links ELSE 0]
    ELSE [original_composer |-> work.original_composer,
          original_title |-> work.original_title,
          csv_row |-> work.csv_row,
          mapped_work |-> work.mapped_work,
          composer |-> work.original_composer,
          title |-> work.original_title,
          url |-> "None",
          status |-> "mapped",
          note |-> "",
          url_valid |-> FALSE,
          pdf_links |-> <<>>,
          pdf_links_found |-> 0]

\* the work after the loop body: url_valid is the result of test_imslp_url
\* and n_links the number of links get_pdf_links_from_work returns (both
\* catch every exception)
Complete_processed(wm, work, url_valid, n_links) ==
    IF work.mapped_work # None
    THEN [original_composer |-> work.original_composer,
          original_title |-> work.original_title,
          csv_row |-> work.csv_row,
          mapped_work |-> work.mapped_work,
          composer |-> wm[work.mapped_work].mapping.composer,
          title |-> wm[work.mapped_work].mapping.full_title,
          url |-> wm[work.mapped_work].mapping.imslp_url,
          status |-> "mapped",
          note |-> get_note(wm[work.mapped_work].mapping),
          url_valid |-> url_valid,
          pdf_links |-> IF url_valid THEN [k \in 1..n_links |-> "pdf_info"] ELSE <<>>,
          pdf_links_found |-> IF url_valid THEN n_links ELSE 0]
    ELSE [original_composer |-> work.original_composer,
          original_title |-> work.original_title,
          csv_row |-> work.csv_row,
          mapped_work |-> work.mapped_work,
          composer |-> work.original_composer,
          title |-> work.original_title,
          url |-> "None",
          status |-> "no_mapping",
          note |-> "",
          url_valid |-> FALSE,
          pdf_links |-> <<>>,
          pdf_links_found |-> 0]

\* the numbers of links a work page may give
PdfCounts == {0, 2}

\* one iteration of the for loop of process_csv_works; the work dict is
\* updated in place, so the works list sees the update too
Complete_process_work ==
    /\ pc = "loop" /\ ~Complete_process_exhausted
    /\ LET i == Len(processed_works) + 1
       IN  \E url_valid \in BOOLEAN, n_links \in PdfCounts :
              /\ (works[i].mapped_work = None => (~url_valid /\ n_links = 0))
              /\ (~url_valid => n_links = 0)
              /\ LET work == Complete_processed(work_mappings, works[i], url_valid, n_links)
                 IN  /\ processed_works' = Append(processed_works, work)
                     /\ works' = [works EXCEPT ![i] = work]
    /\ UNCHANGED <<processor, work_mappings, composer, title, candidate_keys, mapped_work,
                   test_search_key, test_mapping_key, match, calls, history,
                   csv_file, max_works, pc>>
    /\ UNCHANGED net_vars

\* return processed_works
Complete_process_return ==
    /\ pc = "loop" /\ Complete_process_exhausted
    /\ pc' = "returned"
    /\ UNCHANGED <<processor, work_mappings, composer, title, candidate_keys, mapped_work,
                   test_search_key, test_mapping_key, match, calls, history,
                   csv_file, works, processed_works, max_works>>
    /\ UNCHANGED net_vars

----------------------------------------------------------------------------
(* SpecCsv: one call of read_csv_works or of process_csv_works on a CSV    *)
(* file of at most MaxCsvLines lines                                       *)

MaxCsvLines == 3

CsvLines ==
    { <<",">>,
      <<"B","a","c","h",",">> \o <<"\"">> \o <<"G","a","v","o","t","t","e","s",","," ","O","r","c","h","e","s","t","r","a","l"," ","S","u","i","t","e">> \o <<"\"">>,
      <<"C","h","o","p","i","n",",","N","o","c","t","u","r","n","e">>,
      <<" ","M","o","z","a","r","t"," ",","," ","S","y","m","p","h","o","n","y"," ","4","0"," ">>,
      <<"C","o","m","p","o","s","e","r",",","T","i","t","l","e">>,
      <<"H","a","y","d","n",","," ">>,
      <<"V","i","v","a","l","d","i">> }

CsvFiles == UNION { [1..n -> CsvLines] : n \in 1..MaxCsvLines }

\* a table with the two mappings the lines above ask for
CsvTable ==
    << CompleteMappings[getitem(CompleteMappings, <<"m","o","z","a","r","t"," ","s","y","m","p","h","o","n","y"," ","4","0">>)],
       CompleteMappings[getitem(CompleteMappings, <<"b","a","c","h"," ","g","a","v","o","t","t","e","s">>)] >>

MaxWorksArgs == {None, 1}

InitCsv ==
    /\ processor \in {"Complete", "CSVIMSLP"}
    /\ work_mappings = IF processor = "Complete" THEN CsvTable ELSE <<>>
    /\ composer = <<>> /\ title = <<>>
    /\ candidate_keys = <<>>
    /\ mapped_work = None
    /\ test_search_key = <<>> /\ test_mapping_key = <<>> /\ match = FALSE
    /\ calls = 0
    /\ history = <<>>
    /\ csv_file \in CsvFiles
    /\ works = <<>> /\ processed_works = <<>>
    /\ max_works = None
    /\ pc = "start"
    /\ NetIdle

NextCsv ==
    \/ Complete_read_csv_works_call
    \/ CSVIMSLP_read_csv_works_call
    \/ \E n \in MaxWorksArgs : Complete_process_csv_works_begin(n)
    \/ Complete_process_work
    \/ Complete_process_return

SpecCsv == InitCsv /\ [][NextCsv]_vars
----------------------------------------------------------------------------
(* SpecGen: the matchers on arbitrary reference tables and arbitrary rows. *)
(* The table is any sequence of distinct keys drawn from GenKeys, the row  *)
(* any composer with a title of up to MaxTitleWords words of GenWords.     *)

MaxTableLen == 2
MaxTitleWords == 2

GenKeys ==
    << <<"b","a","c","h"," ","s","u","i","t","e"," ","n","o"," ","3">>, <<"b","a","c","h"," ","s","u","i","t","e"," ","3">>, <<"b","a","c","h"," ","s","u","i","t","e">>, <<"s","u","i","t","e"," ","n","o"," ","3">> >>

GenComposers == { <<"B","a","c","h">>, <<"H","a","y","d","n">> }

GenWords == << <<"S","u","i","t","e">>, <<"S","u","i","t","e","s">>, <<"n","o">>, <<"3">>, <<"m","v","t",".">> >>

GenMapping(k) ==
    [full_title |-> <<"Orchestral Suite No.3, BWV 1068", "Suite No.3",
                      "Orchestral Suites", "Suite No.3 (anonymous)">>[k],
     composer |-> "Bach, Johann Sebastian",
     imslp_url |-> "https://imslp.org/wiki/Orchestral_Suite_No.3,_BWV_1068_(Bach,_Johann_Sebastian)"]

\* the tables: every sequence of 1..MaxTableLen distinct keys of GenKeys
GenTables ==
    { [i \in 1..n |-> [key |-> GenKeys[f[i]], mapping |-> GenMapping(f[i])]] :
        <<n, f>> \in { nf \in UNION { {n} \X [1..n -> 1..Len(GenKeys)] : n \in 1..MaxTableLen } :
                          \A i, j \in 1..nf[1] : i # j => nf[2][i] # nf[2][j] } }

\* the titles: 1..MaxTitleWords distinct words of GenWords separated by single spaces
GenTitles ==
    { join(<<" ">>, [i \in 1..Len(ws) |-> GenWords[ws[i]]]) :
        ws \in { ws \in UNION { [1..n -> 1..Len(GenWords)] : n \in 1..MaxTitleWords } :
                    \A i, j \in 1..Len(ws) : i # j => ws[i] # ws[j] } }

\* the arguments are drawn first; the constructed processor is then called once
InitGen ==
    /\ processor \in Processors
    /\ work_mappings \in GenTables
    /\ composer \in GenComposers
    /\ title \in GenTitles
    /\ candidate_keys = <<>>
    /\ mapped_work = None
    /\ test_search_key = <<>> /\ test_mapping_key = <<>> /\ match = FALSE
    /\ calls = 0
    /\ history = <<>>
    /\ CsvIdle
    /\ NetIdle

NextGen ==
    \/ calls = 0 /\ Complete_call(composer, title) /\ Observe
    \/ calls = 0 /\ Ultimate_call(composer, title) /\ Observe
    \/ calls = 0 /\ Final_call(composer, title) /\ Observe
    \/ calls = 0 /\ Improved_call(composer, title) /\ Observe
    \/ calls = 0 /\ Advanced_call(composer, title) /\ Observe

SpecGen == InitGen /\ [][NextGen]_vars

----------------------------------------------------------------------------
(* SpecScen: the matchers on small tables of built-in entries, in every    *)
(* order, against the rows of the matching scenarios                       *)

\* entries of the built-in table, by key
ScenKeys ==
    << <<"m","o","z","a","r","t"," ","s","y","m","p","h","o","n","y"," ","4","0">>, <<"b","a","c","h"," ","g","a","v","o","t","t","e","s">>, <<"b","a","c","h"," ","o","r","c","h","e","s","t","r","a","l"," ","s","u","i","t","e"," ","n","o","."," ","3">>,
       <<"b","e","e","t","h","o","v","e","n"," ","p","i","a","n","o"," ","s","o","n","a","t","a"," ","n","o"," ","8">>, <<"b","a","c","h"," ","w","t","c"," ","b","o","o","k"," ","1">>, <<"b","a","c","h"," ","w","t","c"," ","b","o","o","k"," ","2">> >>

ScenEntry(k) == CompleteMappings[getitem(CompleteMappings, ScenKeys[k])]

\* the tables: every sequence of 1..MaxTableLen distinct entries of ScenKeys
ScenTables ==
    { [i \in 1..nf[1] |-> ScenEntry(nf[2][i])] :
        nf \in { nf \in UNION { {n} \X [1..n -> 1..Len(ScenKeys)] : n \in 1..MaxTableLen } :
                    \A i, j \in 1..nf[1] : i # j => nf[2][i] # nf[2][j] } }

ScenRows ==
    { [composer |-> <<"M","o","z","a","r","t">>, title |-> <<"S","y","m","p","h","o","n","y"," ","N","o",".","4","0"," ","i","n"," ","G"," ","m","i","n","o","r",","," ","m","v","t","."," ","1">>],
      [composer |-> <<"B","a","c","h">>, title |-> <<"G","a","v","o","t","t","e","s"," ","f","r","o","m"," ","O","r","c","h","e","s","t","r","a","l"," ","S","u","i","t","e">>],
      [composer |-> <<"H","a","y","d","n">>, title |-> <<"P","i","a","n","o"," ","S","o","n","a","t","a">>],
      [composer |-> <<"C","h","o","p","i","n">>, title |-> <<"N","o","c","t","u","r","n","e">>],
      [composer |-> <<"B","a","c","h">>, title |-> <<"W","T","C"," ","B","o","o","k"," ","2"," ","F","u","g","u","e">>],
      [composer |-> <<"B","e","e","t","h","o","v","e","n">>, title |-> <<"S","y","m","p","h","o","n","y"," ","N","o",".","5",","," ","a","l","l"," ","m","o","v","e","m","e","n","t","s">>] }

InitScen ==
    /\ processor \in Processors
    /\ work_mappings \in ScenTables
    /\ \E row \in ScenRows : composer = row.composer /\ title = row.title
    /\ candidate_keys = <<>>
    /\ mapped_work = None
    /\ test_search_key = <<>> /\ test_mapping_key = <<>> /\ match = FALSE
    /\ calls = 0
    /\ history = <<>>
    /\ CsvIdle
    /\ NetIdle

NextScen ==
    \/ calls = 0 /\ Complete_call(composer, title) /\ Observe
    \/ calls = 0 /\ Ultimate_call(composer, title) /\ Observe
    \/ calls = 0 /\ Final_call(composer, title) /\ Observe
    \/ calls = 0 /\ Improved_call(composer, title) /\ Observe
    \/ calls = 0 /\ Advanced_call(composer, title) /\ Observe

SpecScen == InitScen /\ [][NextScen]_vars

----------------------------------------------------------------------------
(* SpecMatch: the fuzzy test alone, on a mapping key of N distinct tokens  *)
(* and a search key sharing the first k of them                            *)

MaxTokens == 10

\* the i-th token: i letters, so that distinct i give distinct tokens
Word(i) == [j \in 1..i |-> "x"]

\* N tokens, optionally followed by the stop-word 'no'
MatchMappingKey(n, stop) ==
    join(<<" ">>, [i \in 1..n |-> Word(i)] \o (IF stop THEN <<<<"n","o">>>> ELSE <<>>))

\* the first k tokens, optionally after the stop-word 'in' and before a foreign token
MatchSearchKey(k, stop, foreign) ==
    join(<<" ">>, (IF stop THEN <<<<"i","n">>>> ELSE <<>>) \o [i \in 1..k |-> Word(i)]
                    \o (IF foreign THEN <<<<"y">>>> ELSE <<>>))

InitMatch ==
    /\ processor \in {"Complete", "Ultimate", "Final"}
    /\ work_mappings = BuiltinMappings(processor)
    /\ composer = <<>>
    /\ title = <<>>
    /\ candidate_keys = <<>>
    /\ mapped_work = None
    /\ \E n \in 0..MaxTokens, k \in 0..MaxTokens, s1, s2, f \in BOOLEAN :
          /\ k <= n
          /\ test_mapping_key = MatchMappingKey(n, s1)
          /\ test_search_key = MatchSearchKey(k, s2, f)
    /\ match = FALSE
    /\ calls = 0
    /\ history = <<>>
    /\ CsvIdle
    /\ NetIdle

NextMatch ==
    \/ Complete_is_strong_match_call
    \/ Ultimate_is_good_match_call
    \/ Final_is_good_match_call

SpecMatch == InitMatch /\ [][NextMatch]_vars


----------------------------------------------------------------------------
(* SpecForms: the matchers on titles made of several form-words, against  *)
(* tables of composer + form-word keys.  The title words are plurals, so   *)
(* that a form-word is found in the title as a substring and the basic key *)
(* shares only the composer with a key of the table.                       *)

FormKeys ==
    << <<"b","a","c","h"," ","s","o","n","a","t","a">>, <<"b","a","c","h"," ","s","u","i","t","e">>, <<"b","a","c","h"," ","p","i","a","n","o"," ","s","o","n","a","t","a">>, <<"b","a","c","h"," ","f","u","g","u","e">>, <<"m","i","n","o","r">> >>

FormTitleWords == << <<"S","o","n","a","t","a","s">>, <<"S","u","i","t","e","s">>, <<"F","u","g","u","e","s">>, <<"P","r","e","l","u","d","e","s">> >>

FormMapping(k) ==
    [full_title |-> <<"Sonatas and Partitas", "Orchestral Suites",
                      "Keyboard Sonatas", "The Art of Fugue", "Minor Works">>[k],
     composer |-> "Bach, Johann Sebastian",
     imslp_url |-> "https://imslp.org/wiki/Category:Bach,_Johann_Sebastian"]

\* the tables: every sequence of 1..MaxTableLen distinct keys of FormKeys
FormTables ==
    { [i \in 1..nf[1] |-> [key |-> FormKeys[nf[2][i]], mapping |-> FormMapping(nf[2][i])]] :
        nf \in { nf \in UNION { {n} \X [1..n -> 1..Len(FormKeys)] : n \in 1..MaxTableLen } :
                    \A i, j \in 1..nf[1] : i # j => nf[2][i] # nf[2][j] } }

\* the titles: 1..MaxTitleWords distinct words of FormTitleWords, in every order
FormTitles ==
    { join(<<" ">>, [i \in 1..Len(ws) |-> FormTitleWords[ws[i]]]) :
        ws \in { ws \in UNION { [1..n -> 1..Len(FormTitleWords)] : n \in 1..MaxTitleWords } :
                    \A i, j \in 1..Len(ws) : i # j => ws[i] # ws[j] } }

InitForms ==
    /\ processor \in Processors
    /\ work_mappings \in FormTables
    /\ composer = <<"B","a","c","h">>
    /\ title \in FormTitles
    /\ candidate_keys = <<>>
    /\ mapped_work = None
    /\ test_search_key = <<>> /\ test_mapping_key = <<>> /\ match = FALSE
    /\ calls = 0
    /\ history = <<>>
    /\ CsvIdle
    /\ NetIdle

NextForms ==
    \/ calls = 0 /\ Complete_call(composer, title) /\ Observe
    \/ calls = 0 /\ Ultimate_call(composer, title) /\ Observe
    \/ calls = 0 /\ Final_call(composer, title) /\ Observe
    \/ calls = 0 /\ Improved_call(composer, title) /\ Observe
    \/ calls = 0 /\ Advanced_call(composer, title) /\ Observe

SpecForms == InitForms /\ [][NextForms]_vars

----------------------------------------------------------------------------
(* SpecKeys: a processor with its built-in table is queried with the keys  *)
(* of that table, each split at one of its spaces into composer and title  *)

\* the (composer, title) pairs with composer + " " + title = k
KeySplits(k) ==
    { [composer |-> SubSeq(k, 1, cut - 1), title |-> SubSeq(k, cut + 1, Len(k))] :
        cut \in {i \in 2..(Len(k) - 1) : k[i] = " "} }

KeyRows(wm) == UNION { KeySplits(wm[i].key) : i \in 1..Len(wm) }

InitKeys ==
    /\ processor \in Processors
    /\ work_mappings = BuiltinMappings(processor)
    /\ \E row \in KeyRows(BuiltinMappings(processor)) :
          composer = row.composer /\ title = row.title
    /\ candidate_keys = <<>>
    /\ mapped_work = None
    /\ test_search_key = <<>> /\ test_mapping_key = <<>> /\ match = FALSE
    /\ calls = 0
    /\ history = <<>>
    /\ CsvIdle
    /\ NetIdle

NextKeys ==
    \/ calls = 0 /\ Complete_call(composer, title) /\ Observe
    \/ calls = 0 /\ Ultimate_call(composer, title) /\ Observe
    \/ calls = 0 /\ Final_call(composer, title) /\ Observe
    \/ calls = 0 /\ Improved_call(composer, title) /\ Observe
    \/ calls = 0 /\ Advanced_call(composer, title) /\ Observe

SpecKeys == InitKeys /\ [][NextKeys]_vars

----------------------------------------------------------------------------
(* SpecConc: _find_work_mapping calls of CompleteSolutionsProcessor run by *)
(* several threads on one object.  A step of a thread is one iteration of  *)
(* one of the two loops; the table is the only state the threads share.    *)

MaxThreads == 2

\* mutant: the search keys are kept on the object, where the thread that
\* started last has put its own
thread_search_keys_shared(n) == threads[Len(threads)].search_keys

\* the local search_keys list of thread n
thread_search_keys(n) == threads[n].search_keys

\* the locals of a thread after one more iteration: first the loop of the
\* exact matches over search_keys, then the loops of the partial matches
\* over search_keys and the table
Complete_thread_step(wm, th, search_keys) ==
    IF th.stage = "exact"
    THEN IF th.j > Len(search_keys) THEN [th EXCEPT !.stage = "partial", !.j = 1, !.i = 1]
         ELSE IF has_key(wm, search_keys[th.j])
              THEN [th EXCEPT !.stage = "done", !.result = getitem(wm, search_keys[th.j])]
              ELSE [th EXCEPT !.j = @ + 1]
    ELSE IF th.j > Len(search_keys) THEN [th EXCEPT !.stage = "done", !.result = None]
         ELSE IF th.i > Len(wm) THEN [th EXCEPT !.j = @ + 1, !.i = 1]
         ELSE IF Complete_is_strong_match(search_keys[th.j], wm[th.i].key)
              THEN [th EXCEPT !.stage = "done", !.result = th.i]
              ELSE [th EXCEPT !.i = @ + 1]

\* a thread calls self._find_work_mapping(c, t) and builds its search keys
Thread_call(c, t) ==
    /\ Len(threads) < MaxThreads
    /\ threads' = Append(threads, [composer |-> c, title |-> t,
                                   search_keys |-> Complete_search_keys(c, t),
                                   stage |-> "exact", j |-> 1, i |-> 1, result |-> None])
    /\ UNCHANGED <<match_vars, csv_vars, args, ret, files, requests>>

\* thread n runs one iteration
Thread_step(n) ==
    /\ threads[n].stage # "done"
    /\ threads' = [threads EXCEPT
                      ![n] = Complete_thread_step(work_mappings, threads[n], thread_search_keys(n))]
    /\ UNCHANGED <<match_vars, csv_vars, args, ret, files, requests>>

ConcTable == << ScenEntry(2), ScenEntry(5), ScenEntry(6) >>

ConcRows ==
    { [composer |-> <<"B","a","c","h">>, title |-> <<"W","T","C"," ","B","o","o","k"," ","2"," ","F","u","g","u","e">>],
      [composer |-> <<"B","a","c","h">>, title |-> <<"G","a","v","o","t","t","e","s"," ","f","r","o","m"," ","O","r","c","h","e","s","t","r","a","l"," ","S","u","i","t","e">>],
      [composer |-> <<"C","h","o","p","i","n">>, title |-> <<"N","o","c","t","u","r","n","e">>] }

InitConc ==
    /\ processor = "Complete"
    /\ work_mappings = ConcTable
    /\ composer = <<>> /\ title = <<>>
    /\ candidate_keys = <<>>
    /\ mapped_work = None
    /\ test_search_key = <<>> /\ test_mapping_key = <<>> /\ match = FALSE
    /\ calls = 0
    /\ history = <<>>
    /\ CsvIdle
    /\ NetIdle

NextConc ==
    \/ \E row \in ConcRows : Thread_call(row.composer, row.title)
    \/ \E n \in 1..Len(threads) : Thread_step(n)

SpecConc == InitConc /\ [][NextConc]_vars

----------------------------------------------------------------------------
(* SpecClient: IMSLPClient.download_with_browser_simulation.  args holds   *)
(* the arguments of the running call and the files that existed before it, *)
(* ret its position, its return value and the response the last strategy   *)
(* received, requests the strategies called so far, each with whether it   *)
(* opened the target file and what it returned,                            *)
(* files the paths that exist.                                             *)

\* the strategies list, in the order the loop enumerates it
strategies ==
    << "_download_direct", "_download_with_referrer",
       "_download_with_session_warmup", "_download_slow_request" >>

\* _is_valid_pdf_response: the content type in lower case decides first,
\* then the size of the body, then its first four bytes
is_valid_pdf_response(response) ==
    LET content_type == lower(response.content_type)
    IN  IF contains(content_type, <<"t","e","x","t","/","h","t","m","l">>) THEN FALSE
        ELSE IF contains(content_type, <<"a","p","p","l","i","c","a","t","i","o","n","/","p","d","f">>) THEN TRUE
        ELSE IF response.len < 5000 THEN FALSE
        ELSE IF starts_at(response.head, <<"%","P","D","F">>, 1) THEN TRUE
        ELSE FALSE

\* what a strategy returns: True when the request and raise_for_status did
\* not raise, the response is valid and open and write did not raise; every
\* exception is caught and makes it return False
strategy_returns(response) ==
    /\ ~response.raises
    /\ is_valid_pdf_response(response)
    /\ response.io = "ok"

\* whether a strategy leaves a file at the target path: open(filename,
\* 'wb') creates it, also when the write that follows raises
strategy_opens(response) ==
    /\ ~response.raises
    /\ is_valid_pdf_response(response)
    /\ response.io # "open"

\* mutant: the loop goes on to the next strategy after a success
loop_returns_at_end(returned, i) == i = Len(strategies)

\* the loop over the strategies returns at the first success, or after the
\* last strategy
loop_returns(returned, i) == returned \/ i = Len(strategies)

\* the call of download_with_browser_simulation(url, filename)
Download_call(url, filename) ==
    /\ ret.pc = "idle"
    /\ args' = [url |-> url, filename |-> filename, before |-> files]
    /\ ret' = [pc |-> "running", value |-> None, response |-> None]
    /\ requests' = <<>>
    /\ UNCHANGED <<match_vars, csv_vars, threads, files>>

\* one iteration of the loop: the next strategy is called with the url and
\* the filename and receives response
Download_strategy(response) ==
    LET i == Len(requests) + 1
        returned == strategy_returns(response)
    IN  /\ ret.pc = "running"
        /\ requests' = Append(requests,
               [strategy |-> strategies[i], url |-> args.url,
                opened |-> strategy_opens(response), returned |-> returned])
        /\ files' = IF strategy_opens(response) THEN files \cup {args.filename} ELSE files
        /\ ret' = IF loop_returns(returned, i)
                  THEN [pc |-> "returned", value |-> returned, response |-> response]
                  ELSE [ret EXCEPT !.response = response]
        /\ UNCHANGED <<match_vars, csv_vars, threads, args>>

\* the content-type headers of the responses; the empty one is a response
\* without the header
ContentTypes ==
    { <<>>, <<"t","e","x","t","/","h","t","m","l",";"," ","c","h","a","r","s","e","t","=","u","t","f","-","8">>, <<"A","p","p","l","i","c","a","t","i","o","n","/","P","D","F">>,
      <<"a","p","p","l","i","c","a","t","i","o","n","/","o","c","t","e","t","-","s","t","r","e","a","m">> }

\* the responses of the server and of the file system to one strategy:
\* raises for an exception of the request or of raise_for_status, len and
\* head for the size and the first bytes of the body, io for the outcome
\* of open and write
Responses ==
    { [raises |-> TRUE, content_type |-> <<>>, len |-> 0, head |-> <<>>, io |-> "ok"] }
    \cup
    [ raises : {FALSE}, content_type : ContentTypes, len : {4999, 5000},
      head : {<<"%","P","D","F">>, <<"<","h","t","m">>}, io : {"ok", "open", "write"} ]

Filenames == {"01_Score.pdf"}

\* no call of a matcher is running or has run
MatchIdle ==
    /\ processor = "Complete"
    /\ work_mappings = <<>>
    /\ composer = <<>> /\ title = <<>>
    /\ candidate_keys = <<>>
    /\ mapped_work = None
    /\ test_search_key = <<>> /\ test_mapping_key = <<>> /\ match = FALSE
    /\ calls = 0
    /\ history = <<>>

InitClient ==
    /\ MatchIdle
    /\ CsvIdle
    /\ threads = <<>>
    /\ args = <<>>
    /\ ret = [pc |-> "idle", value |-> None, response |-> None]
    /\ files \in SUBSET Filenames
    /\ requests = <<>>

NextClient ==
    \/ \E filename \in Filenames : Download_call("/images/score.pdf", filename)
    \/ \E response \in Responses : Download_strategy(response)

SpecClient == InitClient /\ [][NextClient]_vars

----------------------------------------------------------------------------
(* SpecBatch: IMSLPBatchDownloader.process_specific_works.  args holds the *)
(* enabled works and the files that existed before the call, ret the       *)
(* position of the call, its results, the result of the work in progress   *)
(* and the PDF links of that work, requests the calls of                   *)
(* download_with_browser_simulation with their filename and outcome.       *)

\* the value of download_with_browser_simulation and whether the target
\* file was opened, for the responses the strategies from the i-th on get
RECURSIVE download_with_browser_simulation(_, _)
download_with_browser_simulation(responses, i) ==
    IF i > Len(strategies) THEN [value |-> FALSE, opened |-> FALSE]
    ELSE IF strategy_returns(responses[i]) THEN [value |-> TRUE, opened |-> TRUE]
    ELSE LET later == download_with_browser_simulation(responses, i + 1)
         IN  [value |-> later.value,
              opened |-> strategy_opens(responses[i]) \/ later.opened]

\* _sanitize_filename: the invalid characters become '_', a name of more
\* than 200 characters is cut to 195 characters and its extension, and the
\* result is stripped
sanitize_filename(filename) ==
    LET invalid_chars == {"<", ">", ":", "\"", "/", "\\", "|", "?", "*"}
        replaced == [k \in 1..Len(filename) |->
                        IF filename[k] \in invalid_chars THEN "_" ELSE filename[k]]
        dots == {k \in 1..Len(replaced) : replaced[k] = "."}
        dot  == IF dots = {} THEN Len(replaced) + 1
                ELSE CHOOSE k \in dots : \A d \in dots : d <= k
        name == SubSeq(replaced, 1, dot - 1)
        ext  == SubSeq(replaced, dot + 1, Len(replaced))
        cut  == SubSeq(name, 1, 195) \o (IF ext # <<>> THEN <<".">> \o ext ELSE <<>>)
    IN  strip(IF Len(replaced) > 200 THEN cut ELSE replaced)

\* f"{file_number:02d}"
two_digits(file_number) ==
    LET digits == << "0", "1", "2", "3", "4", "5", "6", "7", "8", "9" >>
    IN  << digits[((file_number \div 10) % 10) + 1], digits[(file_number % 10) + 1] >>

\* work_dir of _process_single_work: the directory of the work under the
\* output directory
work_dir(work) ==
    <<"d","o","w","n","l","o","a","d","s","/">> \o sanitize_filename(work.composer \o <<" ","-"," ">> \o work.title)

\* filepath of _attempt_pdf_download, as str
filepath(dir, pdf_info, file_number) ==
    dir \o <<"/">> \o
    sanitize_filename(two_digits(file_number) \o <<"_">> \o pdf_info.title \o <<".","p","d","f">>)

\* mutant: the download is attempted although the file exists
filepath_exists_never(path, fs) == FALSE

\* filepath.exists()
filepath_exists(path, fs) == path \in fs

\* _attempt_pdf_download: its result, the files that exist after it and the
\* requests it has added, when the download meets responses
attempt_pdf_download(pdf_info, dir, file_number, fs, responses) ==
    LET path == filepath(dir, pdf_info, file_number)
        result == [title |-> pdf_info.title, url |-> pdf_info.download_url,
                   success |-> FALSE, filename |-> None, error |-> None]
        download == download_with_browser_simulation(responses, 1)
        after == IF download.opened THEN fs \cup {path} ELSE fs
    IN  IF filepath_exists(path, fs)
        THEN [result |-> [result EXCEPT !.success = TRUE, !.filename = path],
              files |-> fs, requests |-> <<>>]
        ELSE [result |-> IF download.value /\ filepath_exists(path, after)
                         THEN [result EXCEPT !.success = TRUE, !.filename = path]
                         ELSE [result EXCEPT !.error = "Download failed"],
              files |-> after,
              requests |-> << [url |-> pdf_info.download_url, filename |-> path,
                               opened |-> download.opened, value |-> download.value] >>]

\* the body of the loop of process_specific_works after _process_single_work
\* has returned work_result
accumulate(results, work_result) ==
    [ total_works |-> results.total_works + 1,
      successful_downloads |-> results.successful_downloads + work_result.successful_downloads,
      failed_downloads |-> results.failed_downloads + work_result.failed_downloads,
      pdf_links_found |-> results.pdf_links_found + work_result.pdf_links_found,
      details |-> Append(results.details, work_result) ]

\* the call of process_specific_works: the enabled works of the
\* configuration, a work without the key counting as enabled
Specific_works_call(specific_works) ==
    /\ ret.pc = "idle"
    /\ args' = [ enabled_works |->
                    SelectSeq(specific_works, LAMBDA work :
                        IF "enabled" \in DOMAIN work THEN work.enabled ELSE TRUE),
                 before |-> files ]
    /\ ret' = [ pc |-> "works",
                results |-> [total_works |-> 0, successful_downloads |-> 0,
                             failed_downloads |-> 0, pdf_links_found |-> 0,
                             details |-> <<>>],
                result |-> None, pdf_links |-> <<>> ]
    /\ requests' = <<>>
    /\ UNCHANGED <<match_vars, csv_vars, threads, files>>

\* _process_single_work of the next enabled work up to its loop: the page
\* gives pdf_links; without links the result is returned as it is, and
\* when mkdir raises the handler sets failed_downloads to 1
Single_work_begin(pdf_links, mkdir_raises) ==
    LET work == args.enabled_works[ret.results.total_works + 1]
        result == [ composer |-> work.composer, title |-> work.title, url |-> work.url,
                    pdf_links_found |-> Len(pdf_links), successful_downloads |-> 0,
                    failed_downloads |-> 0, pdf_files |-> <<>> ]
    IN  /\ ret.pc = "works"
        /\ ret.results.total_works < Len(args.enabled_works)
        /\ ret' = IF pdf_links = <<>>
                  THEN [ret EXCEPT !.results = accumulate(@, result)]
                  ELSE IF mkdir_raises
                  THEN [ret EXCEPT !.results =
                           accumulate(@, [result EXCEPT !.failed_downloads = 1])]
                  ELSE [ret EXCEPT !.pc = "links", !.result = result,
                                   !.pdf_links = pdf_links]
        /\ UNCHANGED <<match_vars, csv_vars, threads, args, files, requests>>

\* one iteration of the loop over pdf_links; after the last one
\* _process_single_work returns and its result is accumulated
Single_work_attempt(responses) ==
    LET work == args.enabled_works[ret.results.total_works + 1]
        i == Len(ret.result.pdf_files) + 1
        attempt == attempt_pdf_download(ret.pdf_links[i], work_dir(work), i, files, responses)
        result == [ret.result EXCEPT
                     !.pdf_files = Append(@, attempt.result),
                     !.successful_downloads = IF attempt.result.success THEN @ + 1 ELSE @,
                     !.failed_downloads = IF attempt.result.success THEN @ ELSE @ + 1]
    IN  /\ ret.pc = "links"
        /\ files' = attempt.files
        /\ requests' = requests \o attempt.requests
        /\ ret' = IF i < Len(ret.pdf_links)
                  THEN [ret EXCEPT !.result = result]
                  ELSE [ret EXCEPT !.pc = "works", !.result = None, !.pdf_links = <<>>,
                                   !.results = accumulate(@, result)]
        /\ UNCHANGED <<match_vars, csv_vars, threads, args>>

\* process_specific_works returns results after the last enabled work
Specific_works_return ==
    /\ ret.pc = "works"
    /\ ret.results.total_works = Len(args.enabled_works)
    /\ ret' = [ret EXCEPT !.pc = "returned"]
    /\ UNCHANGED <<match_vars, csv_vars, threads, args, files, requests>>

\* the works of the configurations
BatchWorks ==
    { [composer |-> <<"B","a","c","h">>, title |-> <<"S","u","i","t","e",":"," ","N","o",".","3">>, url |-> "/wiki/Suite", enabled |-> e]
        : e \in {TRUE, FALSE} }
    \cup
    { [composer |-> <<"C","h","o","p","i","n">>, title |-> <<"N","o","c","t","u","r","n","e">>, url |-> "/wiki/Nocturne"] }

MaxBatchWorks == 2

\* the lists of specific works: up to MaxBatchWorks works, the same work
\* twice for a later run of it
BatchConfigs == UNION { [1..n -> BatchWorks] : n \in 0..MaxBatchWorks }

\* the PDF links a work page gives
PdfLinkLists ==
    LET score == [title |-> <<"S","c","o","r","e">>, download_url |-> "/images/score.pdf"]
        parts == [title |-> <<"P","a","r","t","s","?">>, download_url |-> "/images/parts.pdf"]
    IN  { <<>>, <<score>>, <<score, parts>> }

\* the responses the four strategies of one download get: requests that
\* raise up to the n-th strategy, and from it on a request that raises, a
\* PDF that is written, or a PDF whose write raises
DownloadResponses ==
    LET failed == [raises |-> TRUE, content_type |-> <<>>, len |-> 0, head |-> <<>>, io |-> "ok"]
        pdf(io) == [raises |-> FALSE, content_type |-> <<"a","p","p","l","i","c","a","t","i","o","n","/","p","d","f">>, len |-> 5000,
                    head |-> <<"%","P","D","F">>, io |-> io]
    IN  { [k \in 1..Len(strategies) |-> IF k < n THEN failed ELSE response]
            : n \in 1..Len(strategies), response \in {failed, pdf("ok"), pdf("write")} }

InitBatch ==
    /\ MatchIdle
    /\ CsvIdle
    /\ threads = <<>>
    /\ args = <<>>
    /\ ret = [pc |-> "idle", results |-> None, result |-> None, pdf_links |-> <<>>]
    /\ files \in SUBSET {<<"d","o","w","n","l","o","a","d","s","/","B","a","c","h"," ","-"," ","S","u","i","t","e","_"," ","N","o",".","3","/","0","1","_","S","c","o","r","e",".","p","d","f">>}
    /\ requests = <<>>

NextBatch ==
    \/ \E specific_works \in BatchConfigs : Specific_works_call(specific_works)
    \/ \E pdf_links \in PdfLinkLists, mkdir_raises \in BOOLEAN :
          Single_work_begin(pdf_links, mkdir_raises)
    \/ \E responses \in DownloadResponses : Single_work_attempt(responses)
    \/ Specific_works_return

SpecBatch == InitBatch /\ [][NextBatch]_vars

----------------------------------------------------------------------------
(* SpecLinks: get_pdf_links_from_work(work_url, limit) of                  *)
(* IMSLPReportGenerator and of the CSV processors.  args holds the spans   *)
(* of class we_file_info2 of the page in page order and the limit, ret the *)
(* list the call returned.                                                 *)

MaxSpans == 3
MaxLimit == 3

\* urljoin('https://imslp.org', href) for an href that is an absolute URL
\* or an absolute path
urljoin(base, href) ==
    IF starts_at(href, <<"h","t","t","p","s",":","/","/">>, 1) THEN href ELSE base \o href

\* href.endswith('.pdf') or 'pdf' in href.lower()
href_is_pdf(href) ==
    \/ Len(href) >= 4 /\ SubSeq(href, Len(href) - 3, Len(href)) = <<".","p","d","f">>
    \/ contains(lower(href), <<"p","d","f">>)

RECURSIVE pdf_links_loop(_, _, _, _)
\* the loop over pdf_spans from the i-th span on: a span whose link has a
\* PDF href is appended, and after an append the loop breaks when the list
\* has limit links or more
pdf_links_loop(pdf_spans, i, limit, pdf_links) ==
    IF i > Len(pdf_spans) THEN pdf_links
    ELSE LET span == pdf_spans[i]
         IN  IF span.link /\ span.href # <<>> /\ href_is_pdf(span.href)
             THEN LET appended == Append(pdf_links,
                          [title |-> span.title,
                           download_url |-> urljoin(<<"h","t","t","p","s",":","/","/","i","m","s","l","p",".","o","r","g">>, span.href)])
                  IN  IF Len(appended) >= limit THEN appended
                      ELSE pdf_links_loop(pdf_spans, i + 1, limit, appended)
             ELSE pdf_links_loop(pdf_spans, i + 1, limit, pdf_links)

\* get_pdf_links_from_work: the empty list when the request raises
get_pdf_links_from_work(page, limit) ==
    IF page.raises THEN <<>> ELSE pdf_links_loop(page.pdf_spans, 1, limit, <<>>)

\* the call get_pdf_links_from_work(work_url, limit) on a page
Get_pdf_links_call(page, limit) ==
    /\ ret.pc = "idle"
    /\ args' = [page |-> page, limit |-> limit]
    /\ ret' = [pc |-> "returned", value |-> get_pdf_links_from_work(page, limit)]
    /\ UNCHANGED <<match_vars, csv_vars, threads, files, requests>>

\* the spans of a page: without a link, with a link without href (the
\* empty href), and with the href of a PDF file, of a file page and of
\* another page
Spans ==
    { [link |-> FALSE, href |-> <<>>, title |-> "x"] }
    \cup
    { [link |-> TRUE, href |-> h, title |-> "Score"] :
        h \in { <<>>, <<"/","i","m","a","g","e","s","/","a",".","p","d","f">>, <<"/","w","i","k","i","/","S","p","e","c","i","a","l",":","I","m","a","g","e","f","r","o","m","I","n","d","e","x","/","1","/","P","D","F">>,
                <<"/","w","i","k","i","/","B","a","c","h">> } }

\* the pages: one whose request raises and those of up to MaxSpans spans
Pages ==
    { [raises |-> TRUE, pdf_spans |-> <<>>] }
    \cup
    { [raises |-> FALSE, pdf_spans |-> s] : s \in UNION { [1..n -> Spans] : n \in 0..MaxSpans } }

InitLinks ==
    /\ MatchIdle
    /\ CsvIdle
    /\ threads = <<>>
    /\ args = <<>>
    /\ ret = [pc |-> "idle", value |-> <<>>]
    /\ files = {}
    /\ requests = <<>>

NextLinks ==
    \E page \in Pages, limit \in 0..MaxLimit : Get_pdf_links_call(page, limit)

SpecLinks == InitLinks /\ [][NextLinks]_vars

----------------------------------------------------------------------------
(* SpecFinder: AdvancedScoreFinder.find_missing_scores.  args holds the    *)
(* unmapped works of the CSV file, ret the position of the call and its    *)
(* results, requests the calls of validate_imslp_page of the last          *)
(* iteration with their answers.                                           *)

MaxHits == 4

RECURSIVE sort_by_confidence(_)
\* list.sort(key=confidence, reverse=True): stable, so a result stays
\* behind the earlier results that have the same confidence
sort_by_confidence(search_results) ==
    IF search_results = <<>> THEN <<>>
    ELSE LET sorted == sort_by_confidence(SubSeq(search_results, 1, Len(search_results) - 1))
             last == search_results[Len(search_results)]
             ahead == {k \in 1..Len(sorted) : sorted[k].confidence >= last.confidence}
         IN  SubSeq(sorted, 1, Cardinality(ahead)) \o <<last>>
             \o SubSeq(sorted, Cardinality(ahead) + 1, Len(sorted))

\* what imslp_search returns for the results it has collected: the three of
\* highest confidence
imslp_search(search_results) ==
    LET sorted == sort_by_confidence(search_results)
    IN  SubSeq(sorted, 1, IF Len(sorted) < 3 THEN Len(sorted) ELSE 3)

\* mutant: a later result of the same confidence replaces the best match
is_better_or_equal(validated_result, best_match) ==
    validated_result.confidence >= best_match.confidence

\* validated_result['confidence'] > work_result['best_match']['confidence']
is_better(validated_result, best_match) ==
    validated_result.confidence > best_match.confidence

RECURSIVE validate_results(_, _, _, _)
\* the loop over search_results from the i-th result on: a result whose
\* page is valid and has PDFs is appended with the page information, and
\* becomes the best match when there is none yet or its confidence is
\* greater; best_match is the position in the list, None for no match
validate_results(search_results, page_infos, i, work_result) ==
    IF i > Len(search_results) THEN work_result
    ELSE LET result == search_results[i]
             page_info == page_infos[i]
             validated_result == [url |-> result.url, confidence |-> result.confidence,
                                  valid |-> page_info.valid, pdf_count |-> page_info.pdf_count]
             validated == Append(work_result.search_results, validated_result)
             better == \/ work_result.best_match = None
                       \/ is_better(validated_result,
                                    work_result.search_results[work_result.best_match])
         IN  IF page_info.valid /\ page_info.pdf_count > 0
             THEN validate_results(search_results, page_infos, i + 1,
                      [work_result EXCEPT !.search_results = validated,
                                          !.best_match = IF better THEN Len(validated) ELSE @])
             ELSE validate_results(search_results, page_infos, i + 1, work_result)

\* the call of find_missing_scores: get_unmapped_works keeps the works of
\* the file that have no mapping
Find_missing_scores_call(all_works) ==
    LET unmapped_works == SelectSeq(all_works, LAMBDA work : work.mapped_work = None)
    IN  /\ ret.pc = "idle"
        /\ args' = [unmapped_works |-> unmapped_works]
        /\ ret' = [pc |-> "works",
                   results |-> [total_unmapped |-> Len(unmapped_works), found_works |-> <<>>,
                                still_missing |-> <<>>, search_attempts |-> <<>>]]
        /\ UNCHANGED <<match_vars, csv_vars, threads, files, requests>>

\* one iteration of the loop over the unmapped works, for work: the search
\* has collected found, and page_infos are the answers of validate_imslp_page
\* for the results that imslp_search returns
Find_missing_scores_work(work, found, page_infos) ==
    LET search_results == imslp_search(found)
        work_result == validate_results(search_results, page_infos, 1,
                           [original_work |-> work, search_results |-> <<>>,
                            best_match |-> None])
    IN  /\ ret.pc = "works"
        /\ Len(ret.results.search_attempts) < Len(args.unmapped_works)
        /\ work = args.unmapped_works[Len(ret.results.search_attempts) + 1]
        /\ requests' = [k \in 1..Len(search_results) |->
                           [url |-> search_results[k].url,
                            confidence |-> search_results[k].confidence,
                            valid |-> page_infos[k].valid,
                            pdf_count |-> page_infos[k].pdf_count]]
        /\ ret' = [ret EXCEPT
               !.results.search_attempts = Append(@, work_result),
               !.results.found_works =
                   IF work_result.best_match # None THEN Append(@, work_result) ELSE @,
               !.results.still_missing =
                   IF work_result.best_match # None THEN @ ELSE Append(@, work_result)]
        /\ UNCHANGED <<match_vars, csv_vars, threads, args, files>>

\* find_missing_scores returns results after the last unmapped work
Find_missing_scores_return ==
    /\ ret.pc = "works"
    /\ Len(ret.results.search_attempts) = Len(args.unmapped_works)
    /\ ret' = [ret EXCEPT !.pc = "returned"]
    /\ UNCHANGED <<match_vars, csv_vars, threads, args, files, requests>>

\* the works read_csv_works returns for the CSV files
FinderWorks ==
    LET work(row, t, mapped) == [csv_row |-> row, original_composer |-> "Chopin",
                                 original_title |-> t, mapped_work |-> mapped]
    IN  { <<>>, <<work(1, "Nocturne", 1)>>, <<work(1, "Etude", None)>>,
          <<work(1, "Nocturne", 1), work(2, "Etude", None)>>,
          <<work(1, "Etude", None), work(2, "Ballade", None)>> }

\* the confidences of the results, in tenths
Confidences == {5, 8}

\* the results a search for a work collects: up to MaxHits pages in the
\* order of the result page, and at most one page for the Ballade
SearchResults(work) ==
    UNION { { [k \in 1..n |-> [url |-> k, confidence |-> c[k]]] : c \in [1..n -> Confidences] }
            : n \in 0..(IF work.original_title = "Ballade" THEN 1 ELSE MaxHits) }

\* validate_imslp_page: a page that cannot be fetched, a page without PDF
\* spans and a page with two
PageInfos ==
    { [valid |-> FALSE, pdf_count |-> 0], [valid |-> TRUE, pdf_count |-> 0],
      [valid |-> TRUE, pdf_count |-> 2] }

InitFinder ==
    /\ MatchIdle
    /\ CsvIdle
    /\ threads = <<>>
    /\ args = <<>>
    /\ ret = [pc |-> "idle", results |-> None]
    /\ files = {}
    /\ requests = <<>>

NextFinder ==
    \/ \E all_works \in FinderWorks : Find_missing_scores_call(all_works)
    \/ \E work \in UNION {set(w) : w \in FinderWorks} :
       \E found \in SearchResults(work), page_infos \in [1..3 -> PageInfos] :
          Find_missing_scores_work(work, found, page_infos)
    \/ Find_missing_scores_return

SpecFinder == InitFinder /\ [][NextFinder]_vars

----------------------------------------------------------------------------
(* SpecUltra: UltraAdvancedProcessor.process_csv_ultra_advanced.  args     *)
(* holds the CSV file, ret the position of the call, the works read and    *)
(* the results, requests the answers of the search and of the validation   *)
(* for each work.                                                          *)

\* works of process_csv_ultra_advanced: the rows of the file after the
\* first that have a composer and a title, stripped
Ultra_works(file) ==
    LET works_raw == [j \in 1..Len(file) |-> csv_reader_row(file[j])]
        rows == SelectSeq(SubSeq(works_raw, 2, Len(works_raw)), row_is_work)
    IN  [k \in 1..Len(rows) |-> [Composer |-> strip(rows[k][1]), Title |-> strip(rows[k][2])]]

\* the result appended for a work: found says whether search_imslp_advanced
\* returned a URL, is_valid and pdf_count what validate_url_and_get_pdfs
\* returned for it
Ultra_result(work, found, is_valid, pdf_count) ==
    LET status == IF found
                  THEN IF is_valid /\ pdf_count > 0 THEN "success"
                       ELSE IF is_valid THEN "no_pdfs" ELSE "invalid_url"
                  ELSE "not_found"
    IN  [ original_composer |-> work.Composer, original_title |-> work.Title,
          imslp_url |-> IF status \in {"success", "no_pdfs"} THEN "/wiki/Work" ELSE "None",
          pdf_links |-> IF status = "success" THEN pdf_count ELSE 0,
          status |-> status ]

\* the call of process_csv_ultra_advanced(csv_file) up to its loop
Ultra_call(file) ==
    /\ ret.pc = "idle"
    /\ args' = [csv_file |-> file]
    /\ ret' = [pc |-> "works", works |-> Ultra_works(file), results |-> <<>>]
    /\ requests' = <<>>
    /\ UNCHANGED <<match_vars, csv_vars, threads, files>>

\* one iteration of the loop over works; validate_url_and_get_pdfs is
\* called only for a URL that was found, and returns no links for a page
\* that is not valid
Ultra_work(found, is_valid, pdf_count) ==
    LET work == ret.works[Len(ret.results) + 1]
    IN  /\ ret.pc = "works"
        /\ Len(ret.results) < Len(ret.works)
        /\ found \/ ~is_valid
        /\ is_valid \/ pdf_count = 0
        /\ ret' = [ret EXCEPT !.results =
                      Append(@, Ultra_result(work, found, is_valid, pdf_count))]
        /\ requests' = Append(requests,
                          [found |-> found, is_valid |-> is_valid, pdf_count |-> pdf_count])
        /\ UNCHANGED <<match_vars, csv_vars, threads, args, files>>

\* process_csv_ultra_advanced returns results after the last work
Ultra_return ==
    /\ ret.pc = "works"
    /\ Len(ret.results) = Len(ret.works)
    /\ ret' = [ret EXCEPT !.pc = "returned"]
    /\ UNCHANGED <<match_vars, csv_vars, threads, args, files, requests>>

\* the CSV files: up to MaxCsvLines lines
UltraFiles ==
    UNION { [1..n -> { <<",">>, <<"C","h","o","p","i","n",",","N","o","c","t","u","r","n","e">>, <<" ","M","o","z","a","r","t"," ",","," ","S","y","m","p","h","o","n","y"," ","4","0"," ">>, <<"H","a","y","d","n",","," ">> }]
            : n \in 0..MaxCsvLines }

InitUltra ==
    /\ MatchIdle
    /\ CsvIdle
    /\ threads = <<>>
    /\ args = <<>>
    /\ ret = [pc |-> "idle", works |-> <<>>, results |-> <<>>]
    /\ files = {}
    /\ requests = <<>>

NextUltra ==
    \/ \E file \in UltraFiles : Ultra_call(file)
    \/ \E found \in BOOLEAN, is_valid \in BOOLEAN, pdf_count \in PdfCounts :
          Ultra_work(found, is_valid, pdf_count)
    \/ Ultra_return

SpecUltra == InitUltra /\ [][NextUltra]_vars
----------------------------------------------------------------------------
(* Vocabulary of the properties                                            *)

FuzzyProcessors == {"Complete", "Ultimate", "Final"}

\* a call has been made: composer, title and mapped_work describe it
Called == calls > 0

\* the candidate keys of the call, in generation order
Candidates == candidate_keys

\* Key A: the cleaned, lower-cased "composer title"
KeyA ==
    CASE processor = "Complete" -> Complete_basic_key(composer, title)
      [] processor \in {"Ultimate", "Final"} -> Ultimate_basic_key(composer, title)
      [] OTHER -> Improved_search_key(composer, title)

\* the fuzzy test of the processor
FuzzyMatch(search_key, mapping_key) ==
    IF processor = "Complete" THEN Complete_is_strong_match(search_key, mapping_key)
    ELSE Ultimate_is_good_match(search_key, mapping_key)

\* the table key of a returned mapping
KeyOf(r) == work_mappings[r].key

\* whole-word tokens, and the overlap of two keys with and without stop-words
Tokens(s) == set(split(s))
StopWords == {<<"n","o">>, <<"o","p">>, <<"i","n">>, <<"m","a","j","o","r">>, <<"m","i","n","o","r">>, <<"m","v","t">>, <<"m","o","v","e","m","e","n","t">>}
Overlap(a, b) == Cardinality((Tokens(a) \ StopWords) \cap (Tokens(b) \ StopWords))
RawOverlap(a, b) == Cardinality(Tokens(a) \cap Tokens(b))

NoExactCandidate == \A j \in 1..Len(Candidates) : ~has_key(work_mappings, Candidates[j])

----------------------------------------------------------------------------
\* C1  Exact-match priority: when Key A is itself a key of the table, the
\*     call returns that key's mapping, whatever other keys of the table
\*     would fuzzy-match Key A and wherever they stand in the table.
C1_ExactMatchPriority ==
    (Called /\ processor \in FuzzyProcessors /\ has_key(work_mappings, KeyA))
        => (mapped_work # None /\ KeyOf(mapped_work) = KeyA)

\* Key A is an exact key, and a key standing earlier in the table fuzzy-matches it
C1_Witness ==
    /\ Called /\ processor \in FuzzyProcessors
    /\ has_key(work_mappings, KeyA)
    /\ mapped_work # None /\ KeyOf(mapped_work) = KeyA
    /\ \E i \in 1..(mapped_work - 1) : FuzzyMatch(KeyA, KeyOf(i))

----------------------------------------------------------------------------
\* the table scan of the processor for one candidate key
FuzzyScan(search_key) ==
    IF processor = "Complete" THEN Complete_scan(work_mappings, search_key, 1)
    ELSE Ultimate_scan(work_mappings, search_key, 1)

\* candidate j selected the returned mapping on the fuzzy path: it is the
\* first candidate whose scan hits, and the scan hit is the returned mapping
SelectedBy(j) ==
    /\ FuzzyScan(Candidates[j]) = mapped_work
    /\ \A j2 \in 1..(j - 1) : FuzzyScan(Candidates[j2]) = None

FuzzyReturn ==
    Called /\ processor \in FuzzyProcessors /\ NoExactCandidate /\ mapped_work # None

----------------------------------------------------------------------------
\* number of distinct non-stop-word tokens of the mapping key of the fuzzy test
MappingTokens == Cardinality(Tokens(test_mapping_key) \ StopWords)

\* number of those tokens the search key shares
SharedTokens == Overlap(test_search_key, test_mapping_key)

\* ceil(0.7 * n)
Ceil07(n) == (7 * n + 9) \div 10

StrongMatchCalled == calls > 0 /\ processor = "Complete"

\* C3 as claimed: for every N >= 1
C3_Original ==
    (StrongMatchCalled /\ MappingTokens >= 1) =>
        /\ (SharedTokens = Ceil07(MappingTokens) => match)
        /\ (SharedTokens = Ceil07(MappingTokens) - 1 => ~match)

\* C3  Threshold boundary, amended: for every N >= 2, _is_strong_match
\*     accepts a search key sharing exactly ceil(0.7*N) of the N distinct
\*     non-stop-word tokens of the mapping key and rejects one sharing
\*     exactly ceil(0.7*N) - 1 of them (for N = 1 the single shared token is
\*     rejected by the minimum overlap of 2)
C3_ThresholdBoundary ==
    (StrongMatchCalled /\ MappingTokens >= 2) =>
        /\ (SharedTokens = Ceil07(MappingTokens) => match)
        /\ (SharedTokens = Ceil07(MappingTokens) - 1 => ~match)

\* the ratio is exactly 0.7: 7 of 10 tokens shared, accepted
C3_Witness ==
    StrongMatchCalled /\ MappingTokens = 10 /\ SharedTokens = 7 /\ match


----------------------------------------------------------------------------
\* C4  Scenario A: in the three variants with a fuzzy path, ("Mozart",
\*     "Symphony No.40 in G minor, mvt. 1") against a table containing the
\*     key 'mozart symphony 40' returns the mapping whose full_title is
\*     "Symphony No.40, K.550".
C4_ScenarioA ==
    ( /\ Called /\ processor \in FuzzyProcessors
      /\ composer = <<"M","o","z","a","r","t">>
      /\ title = <<"S","y","m","p","h","o","n","y"," ","N","o",".","4","0"," ","i","n"," ","G"," ","m","i","n","o","r",","," ","m","v","t","."," ","1">>
      /\ has_key(work_mappings, <<"m","o","z","a","r","t"," ","s","y","m","p","h","o","n","y"," ","4","0">>) )
        => ( /\ mapped_work # None
             /\ work_mappings[mapped_work].mapping.full_title = "Symphony No.40, K.550" )

----------------------------------------------------------------------------
\* the whitespace-delimited lower-cased words of the composer and the title
QueryWords == Tokens(lower(composer)) \cup Tokens(lower(title))

\* C7  No-match case: in every variant, a (composer, title) none of whose
\*     lower-cased words is a word of any key of the table yields None.
C7_NoMatch ==
    ( /\ Called
      /\ \A i \in 1..Len(work_mappings) : QueryWords \cap Tokens(KeyOf(i)) = {} )
        => mapped_work = None

----------------------------------------------------------------------------
----------------------------------------------------------------------------
\* _find_work_mapping of the processor on a table wm
FindWorkMapping(wm) ==
    CASE processor = "Complete" -> Complete_find_work_mapping(wm, composer, title)
      [] processor = "Ultimate" -> Ultimate_find_work_mapping(wm, composer, title)
      [] processor = "Final" -> Final_find_work_mapping(wm, composer, title)

Gavottes == <<"b","a","c","h"," ","g","a","v","o","t","t","e","s">>
OrchestralSuite == <<"b","a","c","h"," ","o","r","c","h","e","s","t","r","a","l"," ","s","u","i","t","e"," ","n","o","."," ","3">>

\* the table with the entries of the two keys exchanged
Swapped ==
    LET a == getitem(work_mappings, Gavottes)
        b == getitem(work_mappings, OrchestralSuite)
    IN  [i \in 1..Len(work_mappings) |->
            IF i = a THEN work_mappings[b] ELSE IF i = b THEN work_mappings[a]
            ELSE work_mappings[i]]

\* the key whose mapping table wm returns for r
ReturnedKey(wm, r) == IF r = None THEN <<>> ELSE wm[r].key

ScenarioB ==
    /\ Called /\ processor \in FuzzyProcessors
    /\ composer = <<"B","a","c","h">> /\ title = <<"G","a","v","o","t","t","e","s"," ","f","r","o","m"," ","O","r","c","h","e","s","t","r","a","l"," ","S","u","i","t","e">>
    /\ has_key(work_mappings, Gavottes) /\ has_key(work_mappings, OrchestralSuite)

----------------------------------------------------------------------------
\* C6 as claimed: None whenever every key of the table shares fewer than 2
\*     non-stop-word tokens with the words of the composer and the title
C6_Original ==
    ( /\ Called /\ processor = "Complete"
      /\ \A i \in 1..Len(work_mappings) :
            Cardinality((Tokens(KeyOf(i)) \ StopWords) \cap (QueryWords \ StopWords)) < 2 )
        => mapped_work = None

\* C6  Scenario C, amended: CompleteSolutionsProcessor._find_work_mapping
\*     returns None whenever no candidate key (the basic key or an alias key
\*     term) is itself a key of the table and every key of the table shares
\*     fewer than 2 non-stop-word tokens with every candidate key.
C6_NoStrongMatch ==
    ( /\ Called /\ processor = "Complete"
      /\ NoExactCandidate
      /\ \A i \in 1..Len(work_mappings) : \A j \in 1..Len(Candidates) :
            Overlap(Candidates[j], KeyOf(i)) < 2 )
        => mapped_work = None

\* a key shares one non-stop-word token with a candidate, and stop-words besides
C6_Witness ==
    /\ Called /\ processor = "Complete" /\ NoExactCandidate /\ mapped_work = None
    /\ \A i \in 1..Len(work_mappings) : \A j \in 1..Len(Candidates) :
          Overlap(Candidates[j], KeyOf(i)) < 2
    /\ \E i \in 1..Len(work_mappings) : \E j \in 1..Len(Candidates) :
          Overlap(Candidates[j], KeyOf(i)) = 1 /\ RawOverlap(Candidates[j], KeyOf(i)) >= 2

----------------------------------------------------------------------------
\* some candidate key is an exact key of the table, FirstExact the first such
SomeExact == Called /\ processor \in FuzzyProcessors /\ ~NoExactCandidate

FirstExact ==
    CHOOSE j \in 1..Len(Candidates) :
        /\ has_key(work_mappings, Candidates[j])
        /\ \A j2 \in 1..(j - 1) : ~has_key(work_mappings, Candidates[j2])

----------------------------------------------------------------------------
\* Key B: the cleaned, lower-cased title alone
KeyB == Ultimate_title_only(title)

\* Keys C of UltimateCSVProcessor and FinalPerfectProcessor: composer + form-word
KeysC == Ultimate_composer_plus_keys(composer, title, 1)

\* Key A hits in the exact step / in the fuzzy step of the processor
KeyAExact == has_key(work_mappings, KeyA)

KeyAFuzzy ==
    /\ FuzzyScan(KeyA) # None
    /\ IF processor = "Complete" THEN NoExactCandidate ELSE ~KeyAExact

\* when Key A hits in a step, the mapping found through Key A is returned
KeyAWins ==
    /\ KeyAExact => (mapped_work # None /\ KeyOf(mapped_work) = KeyA)
    /\ KeyAFuzzy => mapped_work = FuzzyScan(KeyA)

----------------------------------------------------------------------------
\* the candidate keys that follow Key A (and Key B where there is one)
FormKeysTried ==
    SubSeq(Candidates, IF processor = "Complete" THEN 2 ELSE 3, Len(Candidates))

\* the form-word vocabulary, in its fixed order
FormWords == Ultimate_key_words

FormWordPresent(n) == contains(lower(title), FormWords[n])

\* composer + form-word
FormKey(n) == fmt(lower(composer), FormWords[n])

\* position of the first occurrence of sub in s, 0 if there is none
find(s, sub) ==
    IF contains(s, sub) THEN CHOOSE i \in 1..Len(s) :
                                 starts_at(s, sub, i) /\ \A i2 \in 1..(i - 1) : ~starts_at(s, sub, i2)
    ELSE 0

\* the keys are exactly one composer + form-word key per form-word of the
\* title, in vocabulary order
OnePerFormWord ==
    /\ \A n \in 1..Len(FormWords) :
          FormWordPresent(n) <=> \E i \in 1..Len(FormKeysTried) : FormKeysTried[i] = FormKey(n)
    /\ Len(FormKeysTried) = Cardinality({n \in 1..Len(FormWords) : FormWordPresent(n)})
    /\ \A i, j \in 1..Len(FormKeysTried) : \A n, m \in 1..Len(FormWords) :
          (i < j /\ FormKeysTried[i] = FormKey(n) /\ FormKeysTried[j] = FormKey(m)) => n < m

CompleteTermOrder ==
    << <<{<<"s","o","n","a","t","a">>}, <<"p","i","a","n","o"," ","s","o","n","a","t","a">>>>, <<{<<"s","y","m","p","h","o","n","y">>}, <<"s","y","m","p","h","o","n","y">>>>,
       <<{<<"c","o","n","c","e","r","t","o">>}, <<"c","o","n","c","e","r","t","o">>>>, <<{<<"t","r","i","o">>}, <<"t","r","i","o">>>>,
       <<{<<"q","u","a","r","t","e","t">>}, <<"q","u","a","r","t","e","t">>>>, <<{<<"s","u","i","t","e">>}, <<"s","u","i","t","e">>>>,
       <<{<<"f","u","g","u","e">>, <<"w","t","c">>}, <<"w","e","l","l","-","t","e","m","p","e","r","e","d"," ","c","l","a","v","i","e","r">>>>,
       <<{<<"f","u","g","u","e">>, <<"w","t","c">>}, <<"w","t","c">>>>,
       <<{<<"b","r","a","n","d","e","n","b","u","r","g">>}, <<"b","r","a","n","d","e","n","b","u","r","g">>>>,
       <<{<<"g","a","v","o","t","t","e">>}, <<"o","r","c","h","e","s","t","r","a","l"," ","s","u","i","t","e">>>>, <<{<<"g","a","v","o","t","t","e">>}, <<"g","a","v","o","t","t","e","s">>>>,
       <<{<<"f","r","e","n","c","h"," ","s","u","i","t","e">>}, <<"f","r","e","n","c","h"," ","s","u","i","t","e">>>>, <<{<<"c","e","l","l","o"," ","s","u","i","t","e">>}, <<"c","e","l","l","o"," ","s","u","i","t","e">>>>,
       <<{<<"n","o","v","e","l","l","e","t","t","e","n">>}, <<"n","o","v","e","l","l","e","t","t","e","n">>>>,
       <<{<<"f","o","u","r"," ","s","e","a","s","o","n","s">>, <<"w","i","n","t","e","r">>, <<"s","u","m","m","e","r">>}, <<"w","i","n","t","e","r">>>>,
       <<{<<"f","o","u","r"," ","s","e","a","s","o","n","s">>, <<"w","i","n","t","e","r">>, <<"s","u","m","m","e","r">>}, <<"s","u","m","m","e","r">>>>,
       <<{<<"a","n","n","a"," ","m","a","g","d","a","l","e","n","a">>, <<"m","a","r","c","h"," ","i","n"," ","d">>}, <<"a","n","n","a"," ","m","a","g","d","a","l","e","n","a">>>> >>

\* the first candidate key that is a key of the table is the one returned,
\* unless an earlier candidate key fuzzy-matches in the interleaved variants
FirstTriedWins ==
    (/\ ~NoExactCandidate
     /\ processor # "Complete" =>
            \A j \in 1..(FirstExact - 1) : FuzzyScan(Candidates[j]) = None)
        => (mapped_work # None /\ KeyOf(mapped_work) = Candidates[FirstExact])

----------------------------------------------------------------------------
\* candidate key k has a strong match in the table; FirstMatching(k) is the
\* first such key in the iteration order of the table
HasMatch(k) == \E i \in 1..Len(work_mappings) : FuzzyMatch(k, KeyOf(i))

FirstMatching(k) ==
    CHOOSE i \in 1..Len(work_mappings) :
        FuzzyMatch(k, KeyOf(i)) /\ \A i2 \in 1..(i - 1) : ~FuzzyMatch(k, KeyOf(i2))

\* the match ratio of key n of the table exceeds that of key m, for candidate key k
HigherRatio(k, n, m) ==
    Overlap(k, KeyOf(n)) * Cardinality(Tokens(KeyOf(m)) \ StopWords)
        > Overlap(k, KeyOf(m)) * Cardinality(Tokens(KeyOf(n)) \ StopWords)

\* C12 Fuzzy tie-break: on the fuzzy path the mapping returned is that of the
\*     first key of the table, in iteration order, that the earliest
\*     candidate key with any strong match strongly matches, whatever the
\*     match ratios; None if no candidate key has a strong match.
C12_FuzzyTieBreak ==
    (Called /\ processor \in FuzzyProcessors /\ NoExactCandidate) =>
        IF \E j \in 1..Len(Candidates) : HasMatch(Candidates[j])
        THEN \E j \in 1..Len(Candidates) :
                /\ HasMatch(Candidates[j])
                /\ \A j2 \in 1..(j - 1) : ~HasMatch(Candidates[j2])
                /\ mapped_work = FirstMatching(Candidates[j])
        ELSE mapped_work = None

\* the candidate key strongly matches the returned key and a later key of
\* the table whose match ratio is higher
C12_Witness ==
    /\ Called /\ processor = "Complete" /\ NoExactCandidate /\ mapped_work # None
    /\ \E j \in 1..Len(Candidates) :
          /\ \A j2 \in 1..(j - 1) : ~HasMatch(Candidates[j2])
          /\ FuzzyMatch(Candidates[j], KeyOf(mapped_work))
          /\ \E i \in (mapped_work + 1)..Len(work_mappings) :
                /\ FuzzyMatch(Candidates[j], KeyOf(i))
                /\ HigherRatio(Candidates[j], i, mapped_work)

----------------------------------------------------------------------------
\* the lower-cased "composer title" of the query
QueryString == fmt(lower(composer), lower(title))

\* C13 Keys are fixed points: a query whose lower-cased "composer title" is
\*     a key k of the table has Key A = k and gets k's own mapping.
C13_KeyFixedPoint ==
    (Called /\ processor \in FuzzyProcessors /\ has_key(work_mappings, QueryString))
        => /\ KeyA = QueryString
           /\ mapped_work = getitem(work_mappings, QueryString)

----------------------------------------------------------------------------
\* Key A of the processor for a composer and a title
BasicKey(c, t) ==
    IF processor = "Complete" THEN Complete_basic_key(c, t) ELSE Ultimate_basic_key(c, t)

AllMovements == <<"a","l","l"," ","m","o","v","e","m","e","n","t","s">>

\* C14 Key A normalization: a title containing the phrase "all movements"
\*     has the same Key A as the same title with that phrase deleted.
C14_KeyANormalization ==
    (Called /\ processor \in FuzzyProcessors /\ contains(lower(title), AllMovements))
        => candidate_keys[1] = BasicKey(composer, replace(lower(title), AllMovements, <<>>))

----------------------------------------------------------------------------
\* a fuzzy test has been made on test_search_key and test_mapping_key
MatchCalled == calls > 0 /\ processor \in FuzzyProcessors

\* the key without its stop-word tokens
WithoutStopWords(key) == join(<<" ">>, SelectSeq(split(key), LAMBDA w : w \notin StopWords))

\* the key followed by one more token
WithToken(key, w) == IF key = <<>> THEN w ELSE key \o <<" ">> \o w

\* the result is the one for the keys without their stop-words, and the one
\* for the keys with one more stop-word on either side
StopWordsIgnored ==
    /\ match = FuzzyMatch(WithoutStopWords(test_search_key), test_mapping_key)
    /\ match = FuzzyMatch(test_search_key, WithoutStopWords(test_mapping_key))
    /\ \A w \in StopWords :
          /\ match = FuzzyMatch(WithToken(test_search_key, w), test_mapping_key)
          /\ match = FuzzyMatch(test_search_key, WithToken(test_mapping_key, w))

\* a key with no token left after the removal gives no match
EmptyIsNoMatch ==
    (Tokens(test_search_key) \ StopWords = {} \/ Tokens(test_mapping_key) \ StopWords = {})
        => ~match

----------------------------------------------------------------------------
\* the returned mapping was found by exact lookup of a candidate key
ExactHit == \E j \in 1..Len(Candidates) : Candidates[j] = KeyOf(mapped_work)

\* C16 A single shared word is never sufficient: in every variant, a mapping
\*     returned otherwise than by an exact key hit has a table key sharing
\*     at least 2 words with the query.
C16_SingleWordInsufficient ==
    (Called /\ mapped_work # None /\ ~ExactHit)
        => Cardinality(QueryWords \cap Tokens(KeyOf(mapped_work))) >= 2

----------------------------------------------------------------------------
\* the possible results of a call: None or a mapping of the table
Results == {None} \cup (1..Len(work_mappings))

\* C17 No failure by exception: every call of _find_work_mapping on a
\*     non-empty table returns a mapping of the table or None; no exception
\*     propagates to the caller.
C17_NoException ==
    (Called /\ composer # <<>> /\ title # <<>> /\ Len(work_mappings) > 0)
        => (mapped_work # Raised /\ mapped_work \in Results)

\* a call of CompleteSolutionsProcessor has tested a table key that has no
\* word left after the stop-words are removed, and has returned None
C17_Witness ==
    /\ Called /\ processor = "Complete"
    /\ \E i \in 1..Len(work_mappings) : Tokens(KeyOf(i)) \ StopWords = {}
    /\ NoExactCandidate
    /\ mapped_work = None

----------------------------------------------------------------------------
----------------------------------------------------------------------------
\* the rows of a CSV file that are works (at least two columns, composer
\* and title not blank), in file order
NonBlank(s) == \E i \in 1..Len(s) : s[i] \notin Whitespace

CsvWorks(file) ==
    SelectSeq([j \in 1..Len(file) |-> csv_reader_row(file[j])],
              LAMBDA row : Len(row) >= 2 /\ NonBlank(row[1]) /\ NonBlank(row[2]))

\* process_csv_works was called without max_works and has returned
ProcessedAll == pc = "returned" /\ max_works = None

\* C19 Batch continues past unmatched rows: process_csv_works called
\*     without max_works returns exactly one entry for every work of the CSV
\*     file, in file order, and an entry without mapping has the status
\*     'no_mapping'.
C19_BatchContinues ==
    ProcessedAll =>
        LET rows == CsvWorks(csv_file)
        IN  /\ Len(processed_works) = Len(rows)
            /\ \A i \in 1..Len(processed_works) :
                  /\ processed_works[i].original_composer = strip(rows[i][1])
                  /\ processed_works[i].original_title = strip(rows[i][2])
                  /\ processed_works[i].mapped_work = None
                        => processed_works[i].status = "no_mapping"

\* a work without mapping was followed by a work with a mapping, and both
\* are in the returned list
C19_Witness ==
    /\ ProcessedAll
    /\ \E i, j \in 1..Len(processed_works) :
          /\ i < j
          /\ processed_works[i].status = "no_mapping"
          /\ processed_works[j].status = "mapped"

----------------------------------------------------------------------------
\* the row is read as a work by read_csv_works of the processor
IsReadWork(row) ==
    /\ row_is_work(row)
    /\ processor = "CSVIMSLP"
          => ~(lower(strip(row[1])) = <<"c","o","m","p","o","s","e","r">> \/ lower(strip(row[2])) = <<"t","i","t","l","e">>)

\* the 1-based positions in the file of the lines read as works
WorkPositions(file) ==
    SelectSeq([j \in 1..Len(file) |-> j], LAMBDA j : IsReadWork(csv_reader_row(file[j])))

\* C20 Row numbering: the csv_row of every work returned by read_csv_works
\*     is the 1-based position of its line in the CSV file.
C20_RowNumbering ==
    pc = "read" => [i \in 1..Len(works) |-> works[i].csv_row] = WorkPositions(csv_file)

----------------------------------------------------------------------------
\* read_csv_works of CompleteSolutionsProcessor has returned
CompleteRead == pc = "read" /\ processor = "Complete"

\* a str that is not empty and has no leading or trailing whitespace
Trimmed(s) == s # <<>> /\ s[1] \notin Whitespace /\ s[Len(s)] \notin Whitespace

\* C21 The CSV reader rejects empty inputs: every _find_work_mapping call
\*     made by read_csv_works gets a non-empty composer and title without
\*     leading or trailing whitespace, and there is one call and one work
\*     for each row with two non-blank columns and none for any other row.
C21_ReaderRejectsEmpty ==
    CompleteRead =>
        /\ \A i \in 1..Len(history) : Trimmed(history[i].composer) /\ Trimmed(history[i].title)
        /\ Len(history) = Len(CsvWorks(csv_file))
        /\ Len(works) = Len(CsvWorks(csv_file))

\* a file with a one-column row, a row with a blank title and a row whose
\* columns are padded with spaces has been read: one call, for the padded row
C21_Witness ==
    /\ CompleteRead
    /\ \E i, j, k \in 1..Len(csv_file) :
          /\ Len(csv_reader_row(csv_file[i])) = 1
          /\ Len(csv_reader_row(csv_file[j])) = 2 /\ strip(csv_reader_row(csv_file[j])[2]) = <<>>
          /\ csv_file[k][1] = " "
    /\ Len(history) = 1 /\ history[1].composer = <<"M","o","z","a","r","t">>

----------------------------------------------------------------------------
\* process_csv_works has returned
Returned == pc = "returned"

\* C29 Result-state consistency of process_csv_works: in every returned
\*     work, status is 'mapped' iff mapped_work is not None iff url is not
\*     None; url_valid only if the status is 'mapped'; pdf_links_found is
\*     the length of pdf_links; and pdf_links is empty unless url_valid.
C29_ResultConsistency ==
    Returned =>
        \A i \in 1..Len(processed_works) :
            LET work == processed_works[i]
            IN  /\ (work.status = "mapped") <=> (work.mapped_work # None)
                /\ (work.mapped_work # None) <=> (work.url # "None")
                /\ work.url_valid => work.status = "mapped"
                /\ work.pdf_links_found = Len(work.pdf_links)
                /\ ~work.url_valid => work.pdf_links = <<>>

\* the returned list has a work without mapping, a mapped work whose URL
\* was found invalid and a mapped work with PDF links
C29_Witness ==
    /\ Returned
    /\ \E i, j, k \in 1..Len(processed_works) :
          /\ processed_works[i].status = "no_mapping"
          /\ processed_works[j].status = "mapped" /\ ~processed_works[j].url_valid
          /\ processed_works[k].url_valid /\ processed_works[k].pdf_links_found > 0

----------------------------------------------------------------------------
\* C22 Concurrent use: whatever the interleaving of the calls running on
\*     the same table, every call that has returned has the result it has
\*     when it runs alone.
C22_ConcurrentUse ==
    \A n \in 1..Len(threads) :
        threads[n].stage = "done"
            => threads[n].result =
                   Complete_find_work_mapping(work_mappings, threads[n].composer, threads[n].title)

\* two calls with different arguments overlap: the second has started
\* after the first and has returned a mapping while the first is still in
\* its scan of the table
C22_Witness ==
    /\ Len(threads) >= 2
    /\ threads[1].stage = "partial" /\ threads[1].i > 1
    /\ threads[2].stage = "done" /\ threads[2].result # None
    /\ threads[1].title # threads[2].title

----------------------------------------------------------------------------
\* the strategies called so far, in the order of the calls
Tried == [k \in 1..Len(requests) |-> requests[k].strategy]

\* C23: download_with_browser_simulation calls its strategies in the order
\* direct, referrer, session warm-up, slow request; no strategy is called
\* after one that reported success; the call returns True exactly when a
\* strategy reported success, and False only after all four have been
\* called and have failed.
C23_StrategyOrder ==
    ret.pc \in {"running", "returned"} =>
        /\ Len(requests) <= 4
        /\ Tried = SubSeq(<< "_download_direct", "_download_with_referrer",
                             "_download_with_session_warmup",
                             "_download_slow_request" >>, 1, Len(requests))
        /\ \A k \in 1..Len(requests) : requests[k].returned => k = Len(requests)
        /\ ret.pc = "running" => \A k \in 1..Len(requests) : ~requests[k].returned
        /\ ret.pc = "returned" =>
              /\ ret.value = (\E k \in 1..Len(requests) : requests[k].returned)
              /\ ret.value = FALSE =>
                    /\ Len(requests) = 4
                    /\ \A k \in 1..4 : ~requests[k].returned

\* a call returned True from its third strategy after two failures
C23_Witness ==
    /\ ret.pc = "returned"
    /\ ret.value = TRUE
    /\ Len(requests) = 3
    /\ ~requests[1].returned /\ ~requests[2].returned /\ requests[3].returned

----------------------------------------------------------------------------
\* the responses the claim lets through: never one whose content type
\* contains text/html, always one of type application/pdf, any other only
\* with a body of at least 5000 bytes that starts with %PDF
Accepted(response) ==
    LET content_type == lower(response.content_type)
    IN  /\ ~contains(content_type, <<"t","e","x","t","/","h","t","m","l">>)
        /\ \/ contains(content_type, <<"a","p","p","l","i","c","a","t","i","o","n","/","p","d","f">>)
           \/ response.len >= 5000 /\ response.head = <<"%","P","D","F">>

\* the target file is opened for writing only by a strategy whose request
\* succeeded with an accepted response: ret.response is the response of
\* the strategy called last
C25_ValidatedWrites ==
    requests # <<>> /\ requests[Len(requests)].opened =>
        ~ret.response.raises /\ Accepted(ret.response)

\* C25: no download strategy writes the target file unless
\*      _is_valid_pdf_response accepted the response (never for text/html,
\*      always for application/pdf, otherwise only for 5000 bytes or more
\*      that start with %PDF), and when all strategies have failed no file
\*      exists at the target path that did not exist before the call.
C25_NoFileOnFailure ==
    /\ C25_ValidatedWrites
    /\ ret.pc = "returned" /\ ret.value = FALSE => files = args.before

----------------------------------------------------------------------------
\* the results of the works of the call that have returned
Details == ret.results.details

\* C27: every result of _process_single_work has successful_downloads +
\*      failed_downloads = pdf_links_found = the number of entries of
\*      pdf_files, also when an exception was caught, and so the totals of
\*      process_specific_works have successful_downloads + failed_downloads
\*      = pdf_links_found.
C27_CountsAgree ==
    ret.pc \in {"works", "links", "returned"} =>
        /\ \A k \in 1..Len(Details) :
              /\ Details[k].successful_downloads + Details[k].failed_downloads
                     = Details[k].pdf_links_found
              /\ Details[k].pdf_links_found = Len(Details[k].pdf_files)
        /\ ret.results.successful_downloads + ret.results.failed_downloads
              = ret.results.pdf_links_found

----------------------------------------------------------------------------
\* the results of _process_single_work so far: those of the works that
\* have returned and the one of the work in progress
WorkResults == Details \o (IF ret.pc = "links" THEN <<ret.result>> ELSE <<>>)

\* the target path of the i-th PDF file of a work result
TargetPath(result, i) == filepath(work_dir(result), result.pdf_files[i], i)

\* C26: _attempt_pdf_download is idempotent over re-runs: when the target
\*      file exists it reports success with that filename and no download
\*      is requested; it reports success only when the file exists at the
\*      target path; so after a successful download of a file no later run
\*      for the same work and file number requests a download.
C26_Idempotent ==
    ret.pc \in {"works", "links", "returned"} =>
        /\ \A k \in 1..Len(requests) :
              /\ requests[k].filename \notin args.before
              /\ \A j \in 1..(k - 1) :
                    requests[j].opened \/ requests[j].value
                        => requests[j].filename # requests[k].filename
        /\ \A w \in 1..Len(WorkResults) : \A i \in 1..Len(WorkResults[w].pdf_files) :
              LET result == WorkResults[w].pdf_files[i]
                  path == TargetPath(WorkResults[w], i)
              IN  /\ path \in args.before => result.success /\ result.filename = path
                  /\ result.success => result.filename = path /\ path \in files
                  /\ ~result.success =>
                        \E k \in 1..Len(requests) :
                            requests[k].filename = path /\ ~requests[k].value

\* the same work was processed twice: the first run downloaded its score,
\* the second reported success for the same file without another request
C26_Witness ==
    /\ ret.pc = "returned"
    /\ Len(Details) = 2
    /\ Len(requests) = 1
    /\ requests[1].value
    /\ Len(Details[1].pdf_files) = 1 /\ Len(Details[2].pdf_files) = 1
    /\ Details[1].pdf_files[1].success /\ Details[2].pdf_files[1].success
    /\ Details[1].pdf_files[1].filename = requests[1].filename
    /\ Details[2].pdf_files[1].filename = requests[1].filename

----------------------------------------------------------------------------
\* the positions of the spans of a page that have a link to a PDF
MatchingSpans(page) ==
    SelectSeq([k \in 1..Len(page.pdf_spans) |-> k],
              LAMBDA k : /\ page.pdf_spans[k].link
                         /\ \E j \in 1..Len(page.pdf_spans[k].href) :
                               j + 2 <= Len(page.pdf_spans[k].href)
                               /\ lower(SubSeq(page.pdf_spans[k].href, j, j + 2)) = <<"p","d","f">>)

\* C24: get_pdf_links_from_work returns at most limit PDF links, for every
\*      limit >= 0, and they are the links of the first matching spans of
\*      the page in page order.
C24_AtMostLimit ==
    ret.pc = "returned" =>
        LET matching == MatchingSpans(args.page)
            n == IF Len(matching) < args.limit THEN Len(matching) ELSE args.limit
        IN  /\ Len(ret.value) <= args.limit
            /\ ~args.page.raises =>
                  /\ Len(ret.value) = n
                  /\ \A k \in 1..n :
                        ret.value[k].download_url =
                            urljoin(<<"h","t","t","p","s",":","/","/","i","m","s","l","p",".","o","r","g">>, args.page.pdf_spans[matching[k]].href)

----------------------------------------------------------------------------
\* the work results of find_missing_scores so far
Attempts == ret.results.search_attempts

\* the pages of the last iteration that were valid and had PDFs
Validated == SelectSeq(requests, LAMBDA page : page.valid /\ page.pdf_count > 0)

\* C28: find_missing_scores partitions the unmapped works: every unmapped
\*      work has one entry in search_attempts, and that entry is in exactly
\*      one of found_works and still_missing; it is in found_works exactly
\*      when one of its search results validated with pdf_count > 0, and
\*      then best_match is a validated result of maximal confidence, the
\*      first one on ties; len(found_works) + len(still_missing) is
\*      total_unmapped.
C28_Partition ==
    ret.pc \in {"works", "returned"} =>
        /\ Len(Attempts) <= Len(args.unmapped_works)
        /\ \A k \in 1..Len(Attempts) : Attempts[k].original_work = args.unmapped_works[k]
        /\ ret.results.found_works
              = SelectSeq(Attempts, LAMBDA a : a.search_results # <<>>)
        /\ ret.results.still_missing
              = SelectSeq(Attempts, LAMBDA a : a.search_results = <<>>)
        /\ Len(ret.results.found_works) + Len(ret.results.still_missing) = Len(Attempts)
        /\ ret.pc = "returned" =>
              /\ Len(Attempts) = ret.results.total_unmapped
              /\ ret.results.total_unmapped = Len(args.unmapped_works)
        /\ Attempts # <<>> =>
              LET a == Attempts[Len(Attempts)]
              IN  /\ a.search_results = Validated
                  /\ a.best_match = None <=> Validated = <<>>
                  /\ a.best_match # None =>
                        /\ a.best_match \in 1..Len(Validated)
                        /\ \A j \in 1..Len(Validated) :
                              Validated[j].confidence <= Validated[a.best_match].confidence
                        /\ \A j \in 1..(a.best_match - 1) :
                              Validated[j].confidence < Validated[a.best_match].confidence

\* two unmapped works were searched: for the first two pages of the same
\* confidence validated, for the second none
C28_Witness ==
    /\ ret.pc = "returned"
    /\ Len(Attempts) = 2
    /\ Len(ret.results.found_works) = 1 /\ Len(ret.results.still_missing) = 1
    /\ Len(Attempts[1].search_results) >= 2
    /\ Attempts[1].search_results[1].confidence = Attempts[1].search_results[2].confidence
    /\ Attempts[1].best_match = 1
    /\ Attempts[2].best_match = None
    /\ requests # <<>>

----------------------------------------------------------------------------
\* C30: process_csv_ultra_advanced returns exactly one result, with a
\*      status among success, no_pdfs, invalid_url and not_found, for every
\*      row of the CSV file that has a non-empty composer and a non-empty
\*      title, the first row of the file included; the status is success
\*      exactly when the URL validated and at least one PDF link was found.
C30_OneResultPerRow ==
    ret.pc = "returned" =>
        LET rows == CsvWorks(args.csv_file)
        IN  /\ Len(ret.results) = Len(rows)
            /\ \A k \in 1..Len(ret.results) :
                  /\ k <= Len(rows) =>
                        /\ ret.results[k].original_composer = strip(rows[k][1])
                        /\ ret.results[k].original_title = strip(rows[k][2])
                  /\ ret.results[k].status \in {"success", "no_pdfs", "invalid_url", "not_found"}
                  /\ ret.results[k].status = "success"
                        <=> /\ requests[k].found
                            /\ requests[k].is_valid
                            /\ requests[k].pdf_count > 0

============================================================================
